---- MODULE Spec2Model ----
(***************************************************************************)
(* unport: the daemon's service registry (bindings, port cursor, snapshot  *)
(* on disk), its control-plane request handlers, the data plane with its   *)
(* kill endpoint and WebSocket tunnel, the daemon's start / shutdown path  *)
(* and the client runtime that spawns and registers a child.               *)
(***************************************************************************)
EXTENDS Integers, Sequences, FiniteSets, TLC

(* ------------------------------ constants ------------------------------ *)

\* first port of the child port window
PORT_RANGE_START == 4000
\* number of ports in the modelled window, minus one (the program uses 1000)
WindowSize == 2
PORT_RANGE_END == PORT_RANGE_START + WindowSize
\* width of Service.port and Registry.next_port (u16)
U16 == 65536
\* the process ids of the modelled process table
Pids == {1, 2}
Domains == {"api.localhost", "web.localhost"}
\* the working directory of the client whose child has the given pid
DirOf(pid) == IF pid % 2 = 1 THEN "/app/api" ELSE "/app/web"
WindowPorts == PORT_RANGE_START .. PORT_RANGE_END
\* outcomes of std::fs::write in Registry::save
IoOk == {"ok"}
IoAny == {"ok", "err_open", "err_write"}

(* ------------------------------- Service -------------------------------- *)

\* Option::None for Option<Service>
NoService == [domain |-> "", port |-> 0, pid |-> 0, directory |-> ""]

Service(d, p, pid, dir) == [domain |-> d, port |-> p, pid |-> pid, directory |-> dir]

\* HashMap::new()
EmptyMap == [k \in {} |-> NoService]

\* HashMap::insert: an existing entry under the key is replaced
HashMapInsert(m, k, v) == [x \in (DOMAIN m) \cup {k} |-> IF x = k THEN v ELSE m[x]]

\* HashMap::remove
HashMapRemove(m, k) == [x \in (DOMAIN m) \ {k} |-> m[x]]

\* wrapping u16 addition (release profile arithmetic)
AddU16(a, b) == (a + b) % U16

SetMax(S) == CHOOSE x \in S : \A y \in S : y <= x

(* ------------------------- snapshot on disk ----------------------------- *)

\* serde_json::to_string_pretty(&self.services): one JSON member per map
\* entry, the member name is the map key, the value the Service object
Serialize(m) == {<<k, m[k]>> : k \in DOMAIN m}

\* serde_json::from_str::<HashMap<String, Service>>: the members are inserted
\* one by one under their member name
Parse(doc) == [k \in {e[1] : e \in doc} |-> (CHOOSE e \in doc : e[1] = k)[2]]

NoFile == [kind |-> "absent", doc |-> {}]
CorruptFile == [kind |-> "corrupt", doc |-> {}]
JsonFile(doc) == [kind |-> "json", doc |-> doc]

\* Registry::save: std::fs::write creates or truncates the file, then writes.
\* io = "err_open": the file could not be opened, it keeps its content;
\* io = "err_write": the write stopped after the truncation.
Registry_save(m, dsk, io) ==
    IF io = "ok" THEN JsonFile(Serialize(m))
    ELSE IF io = "err_open" THEN dsk
    ELSE CorruptFile

(* ------------------------------ Registry -------------------------------- *)

\* Registry::new
Registry_new == [services |-> EmptyMap, next_port |-> PORT_RANGE_START]

\* Registry::load
Registry_load(dsk) ==
    IF dsk.kind = "json"
    THEN LET services == Parse(dsk.doc)
             ports == {services[k].port : k \in DOMAIN services}
             max_port == IF ports = {} THEN PORT_RANGE_START - 1 ELSE SetMax(ports)
         IN  [services |-> services, next_port |-> AddU16(max_port, 1)]
    ELSE Registry_new

\* Registry::get_port: a bug that leaves the cursor where it is
Registry_get_port_noAdvance(next) == [port |-> next, next_port |-> next]

\* Registry::get_port: the returned port and the advanced cursor
Registry_get_port(next) ==
    LET n == AddU16(next, 1)
    IN  [port |-> next, next_port |-> IF n > PORT_RANGE_END THEN PORT_RANGE_START ELSE n]

\* Registry::register: a bug that keys the map by another field of the service
Registry_register_wrongKey(m, dsk, s, io) ==
    LET m2 == HashMapInsert(m, s.directory, s)
    IN  [services |-> m2, disk |-> Registry_save(m2, dsk, io)]

\* Registry::register: a bug that stores the cursor's port instead of the request's
Registry_register_wrongPort(m, dsk, s, io) ==
    LET s2 == [s EXCEPT !.port = IF s.port = PORT_RANGE_START THEN PORT_RANGE_END ELSE PORT_RANGE_START]
        m2 == HashMapInsert(m, s.domain, s2)
    IN  [services |-> m2, disk |-> Registry_save(m2, dsk, io)]

\* Registry::register: a bug that undoes the insert when the save fails
Registry_register_rollback(m, dsk, s, io) ==
    LET m2 == IF io = "ok" THEN HashMapInsert(m, s.domain, s) ELSE m
    IN  [services |-> m2, disk |-> Registry_save(m2, dsk, io)]

\* Registry::register: a bug that keeps the binding a domain already has
Registry_register_keepOld(m, dsk, s, io) ==
    LET m2 == IF s.domain \in DOMAIN m THEN m ELSE HashMapInsert(m, s.domain, s)
    IN  [services |-> m2, disk |-> Registry_save(m2, dsk, io)]

\* Registry::register
Registry_register(m, dsk, s, io) ==
    LET m2 == HashMapInsert(m, s.domain, s)
    IN  [services |-> m2, disk |-> Registry_save(m2, dsk, io)]

\* Registry::unregister: a bug that forgets to persist
Registry_unregister_noSave(m, dsk, domain, io) ==
    [services |-> HashMapRemove(m, domain),
     disk |-> dsk,
     removed |-> IF domain \in DOMAIN m THEN m[domain] ELSE NoService]

\* Registry::unregister: a bug that empties the map
Registry_unregister_clear(m, dsk, domain, io) ==
    [services |-> EmptyMap,
     disk |-> Registry_save(EmptyMap, dsk, io),
     removed |-> IF domain \in DOMAIN m THEN m[domain] ELSE NoService]

\* Registry::unregister
Registry_unregister(m, dsk, domain, io) ==
    LET m2 == HashMapRemove(m, domain)
    IN  [services |-> m2,
         disk |-> Registry_save(m2, dsk, io),
         removed |-> IF domain \in DOMAIN m THEN m[domain] ELSE NoService]

\* Registry::get: a bug that never finds the binding
Registry_get_none(m, domain) == NoService

\* Registry::get
Registry_get(m, domain) == IF domain \in DOMAIN m THEN m[domain] ELSE NoService

\* Registry::list
Registry_list(m) == {m[k] : k \in DOMAIN m}

\* libc::kill(pid, 0) on a process table: 0, or -1 with errno EPERM / ESRCH
Kill0(pt, pid) ==
    IF pid \notin DOMAIN pt THEN "ESRCH"
    ELSE IF pt[pid] = "alive" THEN "ok"
    ELSE IF pt[pid] = "eperm" THEN "EPERM"
    ELSE "ESRCH"

\* is_process_alive of daemon.rs
is_process_alive(pt, pid) == Kill0(pt, pid) = "ok"

\* Registry::cleanup_dead
Registry_cleanup_dead(m, dsk, pt, io) ==
    LET dead == {k \in DOMAIN m : ~is_process_alive(pt, m[k].pid)}
        m2 == [k \in (DOMAIN m) \ dead |-> m[k]]
    IN  [services |-> m2, disk |-> Registry_save(m2, dsk, io)]

(* ------------------------------- state ---------------------------------- *)

VARIABLES
    daemon,      \* "down" or "running": whether a daemon process executes run()
    daemonPid,   \* pid of the running daemon, 0 when none runs
    services,    \* Registry.services of the running daemon
    next_port,   \* Registry.next_port of the running daemon
    disk,        \* registry.json
    pidFile,     \* unport.pid
    sockFile,    \* TRUE when unport.sock exists
    procs,       \* process table: pid -> "dead", "alive" (signal 0 accepted),
                 \* "eperm" (exists, signal 0 rejected as not permitted)
    last,        \* the operation of the last step, its input and its outcome
    pre,         \* registry and snapshot as they were before the accepted Register
                 \* that the last step was, or that the last step, an Unregister
                 \* of the same domain, directly followed
    regPort,     \* per domain: the port of the last accepted Register(d, p) that no
                 \* mutation of d has followed yet, 0 when there is none
    conns,       \* per control connection: the lines received and not yet read, the
                 \* response not yet written, the counts of requests and responses
    tunnel,      \* the WebSocket connection of the proxy: the bytes of both
                 \* directions in the sockets, in the copy buffers and delivered
    client,      \* the process that executes start() of client.rs: its position,
                 \* its configuration, the port it was given, its child
    starts,      \* the processes that execute run() step by step: the position of
                 \* each, its listener tasks, and the owners of the control
                 \* socket path and of the proxy port
    issued       \* the ports of the latest Port responses of the running daemon,
                 \* oldest first, where the handler keeps the record

vars == <<daemon, daemonPid, services, next_port, disk, pidFile, sockFile, procs, last, pre,
          regPort, conns, tunnel, client, starts, issued>>

regVars == <<services, next_port, disk>>
fsVars == <<pidFile, sockFile>>
lifeVars == <<daemon, daemonPid>>

NoPidFile == [kind |-> "absent", pid |-> 0]
GarbagePidFile == [kind |-> "garbage", pid |-> 0]
PidFileOf(pid) == [kind |-> "pid", pid |-> pid]

NoPre == [valid |-> FALSE, services |-> EmptyMap, disk |-> NoFile, next_port |-> 0]

\* record of one step: operation, request fields, response, side effects
Step(op, domain, svc, resp, port, removed, io, sig, listed) ==
    [op |-> op, domain |-> domain, svc |-> svc, resp |-> resp, port |-> port,
     removed |-> removed, io |-> io, sig |-> sig, listed |-> listed, self |-> 0,
     backend |-> "none", domains |-> << >>, sans |-> << >>]

\* record of one execution of run() by the process `self`
StartStep(op, resp, self, io) ==
    [Step(op, "", NoService, resp, 0, NoService, io, {}, {}) EXCEPT !.self = self]

\* the control connections a daemon can hold at a time
ConnIds == {1, 2}

\* no response waits to be written
NoResp == [k |-> 0, req |-> "", resp |-> ""]

\* a connection that is not open
NoConn == [state |-> "closed", inq |-> << >>, n |-> 0, w |-> 0, pend |-> NoResp]

NoStep == Step("Init", "", NoService, "None", 0, NoService, "none", {}, {})

\* one direction of the tunnel: the number of bytes the source has written (the
\* bytes are numbered 1, 2, ... in the order written), the bytes in the socket
\* that the proxy has not read, the bytes in the copy buffer, the bytes
\* delivered to the destination, and how far the end of the stream has got
NoBytes == [sent |-> 0, q |-> << >>, buf |-> << >>, got |-> << >>, eof |-> "no"]

\* no WebSocket connection; up: client to backend, down: backend to client
NoTunnel == [state |-> "none", up |-> NoBytes, down |-> NoBytes, port |-> 0,
             result |-> "none", log |-> "none", ended |-> "none", guard |-> FALSE]

\* no process executes start()
NoClient == [pc |-> "none"]

\* no process executes run() step by step
NoStarts == [pc |-> [p \in Pids |-> "none"], socket_task |-> [p \in Pids |-> "none"],
             proxy_task |-> [p \in Pids |-> "none"], sock |-> 0, proxy |-> 0]

InitWith(pt) ==
    /\ daemon = "down"
    /\ daemonPid = 0
    /\ services = EmptyMap
    /\ next_port = PORT_RANGE_START
    /\ disk = NoFile
    /\ pidFile = NoPidFile
    /\ sockFile = FALSE
    /\ procs = pt
    /\ last = NoStep
    /\ pre = NoPre
    /\ regPort = [d \in Domains |-> 0]
    /\ conns = [c \in ConnIds |-> NoConn]
    /\ tunnel = NoTunnel
    /\ client = NoClient
    /\ starts = NoStarts
    /\ issued = << >>

\* nothing runs, nothing is on disk; the process table holds the pids of Pids
Init == InitWith([p \in Pids |-> "dead"])

\* bookkeeping of regPort from the step just taken: an accepted Register(d, p)
\* records p; Unregister(d), Stop(d) and the kill endpoint for d are mutations
\* of d; a daemon start (load and sweep) or exit is a mutation of every domain
RegPortAfter(rp, step) ==
    IF step.op = "Register" /\ step.resp = "Ok"
    THEN [d \in DOMAIN rp |-> IF d = step.domain THEN step.svc.port ELSE rp[d]]
    ELSE IF step.op \in {"Unregister", "Stop"}
    THEN [d \in DOMAIN rp |-> IF d = step.domain THEN 0 ELSE rp[d]]
    ELSE IF step.op = "Http" /\ step.resp \in {"200 ok", "404 not found"}
    THEN [d \in DOMAIN rp |-> IF d = step.domain THEN 0 ELSE rp[d]]
    ELSE IF step.op \in {"Start", "StartKilled", "CtrlC", "SIGTERM", "Shutdown"}
    THEN [d \in Domains |-> 0]
    ELSE rp

(* --------------------------- daemon life cycle -------------------------- *)

\* the process table once the process `self` exists
Started(pt, self) == [pt EXCEPT ![self] = "alive"]

\* run(): the pid-file check bails out
run_already_running(self) ==
    /\ procs[self] = "dead"
    /\ pidFile.kind = "pid"
    /\ is_process_alive(Started(procs, self), pidFile.pid)
    /\ last' = StartStep("Start", "AlreadyRunning", self, "none")
    /\ pre' = NoPre
    /\ UNCHANGED <<lifeVars, regVars, fsVars, procs>>
    /\ regPort' = RegPortAfter(regPort, last')
    /\ UNCHANGED <<conns, tunnel, client, starts, issued>>

\* run(): stale pid file removed, own pid written, old socket removed,
\* registry loaded and swept, control socket bound
run_started(self, io) ==
    /\ procs[self] = "dead"
    /\ ~(pidFile.kind = "pid" /\ is_process_alive(Started(procs, self), pidFile.pid))
    /\ daemon = "down"
    /\ LET loaded == Registry_load(disk)
           swept == Registry_cleanup_dead(loaded.services, disk, Started(procs, self), io)
       IN  /\ services' = swept.services
           /\ next_port' = loaded.next_port
           /\ disk' = swept.disk
    /\ pidFile' = PidFileOf(self)
    /\ sockFile' = TRUE
    /\ daemon' = "running"
    /\ daemonPid' = self
    /\ procs' = Started(procs, self)
    /\ last' = StartStep("Start", "Started", self, io)
    /\ pre' = NoPre
    /\ regPort' = RegPortAfter(regPort, last')
    /\ UNCHANGED <<conns, tunnel, client, starts>>
    /\ issued' = << >>

\* run(): the process is killed inside std::fs::write of the pid file,
\* after the file was truncated
run_killed_writing_pid(self) ==
    /\ procs[self] = "dead"
    /\ ~(pidFile.kind = "pid" /\ is_process_alive(Started(procs, self), pidFile.pid))
    /\ daemon = "down"
    /\ pidFile' = GarbagePidFile
    /\ last' = StartStep("StartKilled", "None", self, "none")
    /\ pre' = NoPre
    /\ UNCHANGED <<lifeVars, regVars, sockFile, procs>>
    /\ regPort' = RegPortAfter(regPort, last')
    /\ UNCHANGED <<conns, tunnel, client, starts, issued>>

\* the daemon process is gone: its memory with it
ProcessGone ==
    /\ daemon' = "down"
    /\ daemonPid' = 0
    /\ services' = EmptyMap
    /\ next_port' = PORT_RANGE_START
    /\ procs' = [procs EXCEPT ![daemonPid] = "dead"]
    /\ pre' = NoPre
    /\ conns' = [c \in ConnIds |-> NoConn]
    /\ tunnel' = NoTunnel
    /\ UNCHANGED <<client, starts, issued>>

\* run(): the select! arm of tokio::signal::ctrl_c(), then the cleanup
ctrl_c ==
    /\ daemon = "running"
    /\ ProcessGone
    /\ sockFile' = FALSE
    /\ pidFile' = NoPidFile
    /\ last' = Step("CtrlC", "", NoService, "None", 0, NoService, "none", {}, {})
    /\ UNCHANGED disk
    /\ regPort' = RegPortAfter(regPort, last')

\* SIGTERM: run() installs no handler for it, the default action ends the process
sigterm ==
    /\ daemon = "running"
    /\ ProcessGone
    /\ last' = Step("SIGTERM", "", NoService, "None", 0, NoService, "none", {}, {})
    /\ UNCHANGED <<disk, fsVars>>
    /\ regPort' = RegPortAfter(regPort, last')

(* ------------------------- control-plane requests ----------------------- *)

\* handle_request, Request::Register: a bug that drops the existence check
handle_request_Register_noCheck(domain, port, pid, directory, io) ==
    /\ daemon = "running"
    /\ LET svc == Service(domain, port, pid, directory)
           r == Registry_register(services, disk, svc, io)
       IN  /\ services' = r.services
           /\ disk' = r.disk
           /\ last' = Step("Register", domain, svc, "Ok", 0, NoService, io, {}, {})
           /\ pre' = [valid |-> TRUE, services |-> services, disk |-> disk,
                      next_port |-> next_port]
    /\ UNCHANGED <<lifeVars, next_port, fsVars, procs>>
    /\ regPort' = RegPortAfter(regPort, last')

\* handle_request, Request::Register
handle_request_Register(domain, port, pid, directory, io) ==
    /\ daemon = "running"
    /\ LET svc == Service(domain, port, pid, directory)
       IN  IF Registry_get(services, domain) # NoService
           THEN /\ last' = Step("Register", domain, NoService, "Error", 0, NoService, "none", {}, {})
                /\ pre' = NoPre
                /\ UNCHANGED <<services, disk>>
           ELSE LET r == Registry_register(services, disk, svc, io)
                IN  /\ services' = r.services
                    /\ disk' = r.disk
                    /\ last' = Step("Register", domain, svc, "Ok", 0, NoService, io, {}, {})
                    /\ pre' = [valid |-> TRUE, services |-> services, disk |-> disk,
                               next_port |-> next_port]
    /\ UNCHANGED <<lifeVars, next_port, fsVars, procs>>
    /\ regPort' = RegPortAfter(regPort, last')

\* start() of client.rs: the Register request carries the port the child was
\* given, the pid of the spawned child and the client's working directory
start_Register(domain, port, pid, io) ==
    /\ pid # daemonPid
    /\ handle_request_Register(domain, port, pid, DirOf(pid), io)
    /\ UNCHANGED <<conns, tunnel, client, starts, issued>>

\* handle_request, Request::Unregister: a bug that answers Ok whatever was removed
handle_request_Unregister_okAlways(domain, io) ==
    /\ daemon = "running"
    /\ LET r == Registry_unregister(services, disk, domain, io)
       IN  /\ services' = r.services
           /\ disk' = r.disk
           /\ last' = Step("Unregister", domain, NoService, "Ok", 0, r.removed, io, {}, {})
    /\ pre' = IF last.op = "Register" /\ last.resp = "Ok" /\ last.domain = domain
              THEN pre ELSE NoPre
    /\ UNCHANGED <<lifeVars, next_port, fsVars, procs>>
    /\ regPort' = RegPortAfter(regPort, last')

\* handle_request, Request::Unregister
handle_request_Unregister(domain, io) ==
    /\ daemon = "running"
    /\ LET r == Registry_unregister(services, disk, domain, io)
       IN  /\ services' = r.services
           /\ disk' = r.disk
           /\ last' = Step("Unregister", domain, NoService,
                           IF r.removed # NoService THEN "Ok" ELSE "Error",
                           0, r.removed, io, {}, {})
    /\ pre' = IF last.op = "Register" /\ last.resp = "Ok" /\ last.domain = domain
              THEN pre ELSE NoPre
    /\ UNCHANGED <<lifeVars, next_port, fsVars, procs>>
    /\ regPort' = RegPortAfter(regPort, last')

\* handle_request, Request::GetPort
handle_request_GetPort ==
    /\ daemon = "running"
    /\ LET r == Registry_get_port(next_port)
       IN  /\ next_port' = r.next_port
           /\ last' = Step("GetPort", "", NoService, "Port", r.port, NoService, "none", {}, {})
    /\ pre' = NoPre
    /\ UNCHANGED <<lifeVars, services, disk, fsVars, procs>>
    /\ regPort' = RegPortAfter(regPort, last')

\* handle_request, Request::List
handle_request_List ==
    /\ daemon = "running"
    /\ last' = Step("List", "", NoService, "Services", 0, NoService, "none", {},
                    Registry_list(services))
    /\ pre' = NoPre
    /\ UNCHANGED <<lifeVars, regVars, fsVars, procs>>
    /\ regPort' = RegPortAfter(regPort, last')

\* handle_request, Request::Stop: a bug that sends SIGKILL
handle_request_Stop_sigkill(domain, io) ==
    /\ daemon = "running"
    /\ LET r == Registry_unregister(services, disk, domain, io)
       IN  /\ services' = r.services
           /\ disk' = r.disk
           /\ last' = IF r.removed # NoService
                      THEN Step("Stop", domain, NoService, "Ok", 0, NoService, io,
                                {<<r.removed.pid, "SIGKILL">>}, {})
                      ELSE Step("Stop", domain, NoService, "Error", 0, NoService, io, {}, {})
    /\ pre' = NoPre
    /\ UNCHANGED <<lifeVars, next_port, fsVars, procs>>
    /\ regPort' = RegPortAfter(regPort, last')

\* handle_request, Request::Stop
handle_request_Stop(domain, io) ==
    /\ daemon = "running"
    /\ LET r == Registry_unregister(services, disk, domain, io)
       IN  /\ services' = r.services
           /\ disk' = r.disk
           /\ last' = IF r.removed # NoService
                      THEN Step("Stop", domain, NoService, "Ok", 0, NoService, io,
                                {<<r.removed.pid, "SIGTERM">>}, {})
                      ELSE Step("Stop", domain, NoService, "Error", 0, NoService, io, {}, {})
    /\ pre' = NoPre
    /\ UNCHANGED <<lifeVars, next_port, fsVars, procs>>
    /\ regPort' = RegPortAfter(regPort, last')

\* handle_request, Request::Shutdown: std::process::exit(0) inside the handler
handle_request_Shutdown ==
    /\ daemon = "running"
    /\ ProcessGone
    /\ last' = Step("Shutdown", "", NoService, "None", 0, NoService, "none", {}, {})
    /\ UNCHANGED <<disk, fsVars>>
    /\ regPort' = RegPortAfter(regPort, last')

(* ------------------- one request per connection (client.rs) ------------- *)

\* start(): send_request(&Request::GetPort) on a connection of its own
start_GetPort == handle_request_GetPort /\ UNCHANGED <<conns, tunnel, client, starts, issued>>

\* start(): send_request(&Request::Unregister) when the child has ended
start_Unregister(domain, io) == handle_request_Unregister(domain, io) /\ UNCHANGED <<conns, tunnel, client, starts, issued>>

\* list(): send_request(&Request::List)
list == handle_request_List /\ UNCHANGED <<conns, tunnel, client, starts, issued>>

\* stop_service(): send_request(&Request::Stop)
stop_service(domain, io) == handle_request_Stop(domain, io) /\ UNCHANGED <<conns, tunnel, client, starts, issued>>

\* stop_daemon(): send_request(&Request::Shutdown)
stop_daemon == handle_request_Shutdown

(* ------------------------------ data plane ------------------------------ *)

\* Host values and request paths of the modelled HTTP requests
HttpHosts == Domains \cup {"localhost", "127.0.0.1"}
KillPrefix == "/api/kill/"
HttpPaths == {[prefix |-> "/", rest |-> ""]} \cup
             {[prefix |-> KillPrefix, rest |-> t] : t \in Domains \cup {""}}

\* host.split(':').next() on the modelled Host values: the text before the
\* first colon
HostName(host) ==
    CASE host = "api.localhost:80" -> "api.localhost"
      [] host = "API.LOCALHOST:80" -> "API.LOCALHOST"
      [] host = "localhost:80" -> "localhost"
      [] OTHER -> host

\* outcomes of forward_request: Ok(response of the backend) or Err
BackendOutcomes == {"ok", "fail"}

\* handle_http_request, the match on forward_request: a bug that hands the
\* error on instead of answering 502
ForwardResponse_propagate(be) == IF be = "ok" THEN "Forward" ELSE "500 error"

\* handle_http_request, the match on forward_request's result
ForwardResponse(be) == IF be = "ok" THEN "Forward" ELSE "502 Bad Gateway"

\* handle_http_request of proxy.rs: a bug that unregisters without signalling
handle_http_request_noSignal(host, path, io) ==
    /\ daemon = "running"
    /\ LET domain == HostName(host)
           found == Registry_get(services, domain)
       IN  IF found # NoService
           THEN \* forward_request to the binding's port: the backend's response,
                \* or 502 when the connection or the exchange fails
                /\ \E be \in BackendOutcomes :
                      last' = [Step("Http", domain, NoService, ForwardResponse(be),
                                    found.port, NoService, "none", {}, {})
                               EXCEPT !.backend = be]
                /\ UNCHANGED <<services, disk>>
           ELSE IF domain = "localhost" \/ domain = "127.0.0.1"
           THEN IF path.prefix = KillPrefix /\ path.rest # ""
                THEN LET r == Registry_unregister(services, disk, path.rest, io)
                     IN  /\ services' = r.services
                         /\ disk' = r.disk
                         /\ last' = IF r.removed # NoService
                                    THEN Step("Http", path.rest, NoService, "200 ok", 0,
                                              NoService, io, {}, {})
                                    ELSE Step("Http", path.rest, NoService, "404 not found", 0,
                                              NoService, io, {}, {})
                ELSE /\ last' = Step("Http", domain, NoService, "200 dashboard", 0,
                                     NoService, "none", {}, Registry_list(services))
                     /\ UNCHANGED <<services, disk>>
           ELSE /\ last' = Step("Http", domain, NoService, "404 unknown domain", 0,
                                NoService, "none", {}, Registry_list(services))
                /\ UNCHANGED <<services, disk>>
    /\ pre' = NoPre
    /\ UNCHANGED <<lifeVars, next_port, fsVars, procs>>
    /\ regPort' = RegPortAfter(regPort, last')
    /\ UNCHANGED <<conns, tunnel, client, starts, issued>>

\* handle_http_request of proxy.rs
handle_http_request(host, path, io) ==
    /\ daemon = "running"
    /\ LET domain == HostName(host)
           found == Registry_get(services, domain)
       IN  IF found # NoService
           THEN \* forward_request to the binding's port: the backend's response,
                \* or 502 when the connection or the exchange fails
                /\ \E be \in BackendOutcomes :
                      last' = [Step("Http", domain, NoService, ForwardResponse(be),
                                    found.port, NoService, "none", {}, {})
                               EXCEPT !.backend = be]
                /\ UNCHANGED <<services, disk>>
           ELSE IF domain = "localhost" \/ domain = "127.0.0.1"
           THEN IF path.prefix = KillPrefix /\ path.rest # ""
                THEN LET r == Registry_unregister(services, disk, path.rest, io)
                     IN  /\ services' = r.services
                         /\ disk' = r.disk
                         /\ last' = IF r.removed # NoService
                                    THEN Step("Http", path.rest, NoService, "200 ok", 0,
                                              NoService, io, {<<r.removed.pid, "SIGTERM">>}, {})
                                    ELSE Step("Http", path.rest, NoService, "404 not found", 0,
                                              NoService, io, {}, {})
                ELSE /\ last' = Step("Http", domain, NoService, "200 dashboard", 0,
                                     NoService, "none", {}, Registry_list(services))
                     /\ UNCHANGED <<services, disk>>
           ELSE /\ last' = Step("Http", domain, NoService, "404 unknown domain", 0,
                                NoService, "none", {}, Registry_list(services))
                /\ UNCHANGED <<services, disk>>
    /\ pre' = NoPre
    /\ UNCHANGED <<lifeVars, next_port, fsVars, procs>>
    /\ regPort' = RegPortAfter(regPort, last')
    /\ UNCHANGED <<conns, tunnel, client, starts, issued>>

(* ------------------------------ environment ----------------------------- *)

\* a process other than the daemon ends
ProcExit(p) ==
    /\ p # daemonPid
    /\ procs[p] # "dead"
    /\ procs' = [procs EXCEPT ![p] = "dead"]
    /\ last' = Step("ProcExit", "", NoService, "None", 0, NoService, "none", {}, {})
    /\ pre' = NoPre
    /\ UNCHANGED <<lifeVars, regVars, fsVars>>
    /\ regPort' = RegPortAfter(regPort, last')
    /\ UNCHANGED <<conns, tunnel, client, starts, issued>>

\* a process starts under a free pid: a child of this user ("alive") or a
\* process the daemon's user may not signal ("eperm")
ProcSpawn(p, st) ==
    /\ procs[p] = "dead"
    /\ procs' = [procs EXCEPT ![p] = st]
    /\ last' = Step("ProcSpawn", "", NoService, "None", 0, NoService, "none", {}, {})
    /\ pre' = NoPre
    /\ UNCHANGED <<lifeVars, regVars, fsVars>>
    /\ regPort' = RegPortAfter(regPort, last')
    /\ UNCHANGED <<conns, tunnel, client, starts, issued>>

\* the daemon process ends while a request handler is inside the
\* std::fs::write of Registry::save, after the file was truncated: by a signal,
\* or by the std::process::exit(0) of a Shutdown handled on another thread
Registry_save_interrupted(cause) ==
    /\ daemon = "running"
    /\ ProcessGone
    /\ disk' = CorruptFile
    /\ last' = Step(cause, "", NoService, "None", 0, NoService, "none", {}, {})
    /\ UNCHANGED fsVars
    /\ regPort' = RegPortAfter(regPort, last')

(* ---------------------------- specification ----------------------------- *)

\* the steps of the system when Registry::save meets the outcomes IO and the
\* requests name domains of D, ports of P and child pids of PI
Steps(IO, D, P, PI) ==
    \/ \E self \in Pids : run_already_running(self)
    \/ \E self \in Pids, io \in IO : run_started(self, io)
    \/ \E self \in Pids : run_killed_writing_pid(self)
    \/ ctrl_c
    \/ sigterm
    \/ \E d \in D, p \in P, pid \in PI, io \in IO : start_Register(d, p, pid, io)
    \/ \E d \in D, io \in IO : start_Unregister(d, io)
    \/ start_GetPort
    \/ list
    \/ \E d \in D, io \in IO : stop_service(d, io)
    \/ stop_daemon
    \/ \E h \in HttpHosts, path \in HttpPaths, io \in IO : handle_http_request(h, path, io)
    \/ \E p \in Pids : ProcExit(p)
    \/ \E p \in Pids, st \in {"alive", "eperm"} : ProcSpawn(p, st)

Next == Steps(IoOk, Domains, WindowPorts, Pids)

Spec == Init /\ [][Next]_vars

\* the same system when Registry::save may fail; one port and one child pid
\* in the Register requests keep the set of snapshots small
NextIo ==
    \/ Steps(IoAny, Domains, {PORT_RANGE_START}, {1})
    \/ \E cause \in {"SIGTERM", "Shutdown"} : Registry_save_interrupted(cause)

SpecIo == Init /\ [][NextIo]_vars

(* ------------------- data plane: connection handling -------------------- *)

\* str::to_lowercase on the modelled header names, header values and hosts
ToLower(str) ==
    CASE str \in {"Upgrade", "UPGRADE"} -> "upgrade"
      [] str \in {"WebSocket", "WEBSOCKET"} -> "websocket"
      [] str = "API.LOCALHOST" -> "api.localhost"
      [] str = "API.LOCALHOST:80" -> "api.localhost:80"
      [] OTHER -> str

\* the Upgrade header line of a request head as the client wrote it, its text
\* being name ++ ": " ++ value; NoUpgrade: the head has no such line
NoUpgrade == [name |-> "", value |-> ""]
UpgradeLines ==
    {[name |-> n, value |-> v] :
        n \in {"Upgrade", "upgrade", "UPGRADE"}, v \in {"websocket", "WebSocket", "WEBSOCKET"}}
    \cup {[name |-> "Upgrade", value |-> "h2c"], NoUpgrade}

\* the Host header values of the modelled requests ("": no Host header)
CasedHosts ==
    {"api.localhost", "API.LOCALHOST", "api.localhost:80", "API.LOCALHOST:80",
     "localhost", ""}

\* the registered domains of the modelled Register requests
CasedDomains == {"api.localhost", "API.LOCALHOST"}

\* handle_connection: header_str.contains("Upgrade: websocket")
\*                 || header_str.contains("upgrade: websocket")
is_websocket(line) ==
    \/ line.name = "Upgrade" /\ line.value = "websocket"
    \/ line.name = "upgrade" /\ line.value = "websocket"

\* handle_connection of proxy.rs: a connection whose first request has the
\* Host header `host`, the Upgrade line `upgrade` and the path `path`
handle_connection(host, upgrade, path, io) ==
    /\ daemon = "running"
    /\ LET domain == HostName(host)
           found == Registry_get(services, domain)
       IN  IF is_websocket(upgrade)
           THEN \* handle_websocket_tunnel, or 404 with no body
                /\ \E be \in BackendOutcomes :
                      last' = IF found # NoService
                              THEN [Step("Http", domain, NoService,
                                         IF be = "ok" THEN "Tunnel" ELSE "Tunnel closed",
                                         found.port, NoService, "none", {}, {})
                                    EXCEPT !.backend = be]
                              ELSE Step("Http", domain, NoService, "404 no tunnel", 0,
                                        NoService, "none", {}, {})
                /\ pre' = NoPre
                /\ UNCHANGED <<lifeVars, regVars, fsVars, procs, conns, tunnel, client, starts, issued>>
                /\ regPort' = RegPortAfter(regPort, last')
           ELSE \* hyper serves the connection with handle_http_request
                handle_http_request(host, path, io)

\* the data plane with Host values and registered domains in both letter
\* cases and with the spellings of the Upgrade header
NextHttp ==
    \/ \E self \in {1}, io \in IoOk : run_started(self, io)
    \/ ctrl_c
    \/ \E d \in CasedDomains, p \in {PORT_RANGE_START, PORT_RANGE_END}, io \in IoOk :
          start_Register(d, p, 2, io)
    \/ \E d \in CasedDomains, io \in IoOk : start_Unregister(d, io)
    \/ \E h \in CasedHosts, u \in UpgradeLines, path \in HttpPaths, io \in IoOk :
          handle_connection(h, u, path, io)
    \/ \E st \in {"alive"} : ProcSpawn(2, st)

SpecHttp == Init /\ [][NextHttp]_vars

(* --------------------------- control connections ------------------------ *)

\* the most lines a client writes on one connection
MaxLines == 2

\* a line on the control socket: a Request as JSON, or text that is none
Line(kind, domain) == [kind |-> kind, domain |-> domain, port |-> PORT_RANGE_START, pid |-> 2]
ConnLines ==
    {Line("List", ""), Line("Register", "api.localhost"), Line("Shutdown", ""),
     Line("malformed", "")}

\* serde_json::from_str::<DaemonRequest>(&line) is Ok
Parses(line) == line.kind # "malformed"

\* a client connects to the control socket
UnixStream_connect(c) ==
    /\ daemon = "running"
    /\ conns[c].state = "closed"
    /\ conns' = [conns EXCEPT ![c] = [NoConn EXCEPT !.state = "open"]]
    /\ UNCHANGED <<tunnel, client, starts, issued>>
    /\ last' = Step("Connect", "", NoService, "None", 0, NoService, "none", {}, {})
    /\ pre' = NoPre
    /\ UNCHANGED <<lifeVars, regVars, fsVars, procs>>
    /\ regPort' = RegPortAfter(regPort, last')

\* a client writes one more line, whether or not the earlier ones were answered
client_write(c, line) ==
    /\ conns[c].state = "open"
    /\ conns[c].n + Len(conns[c].inq) < MaxLines
    /\ conns' = [conns EXCEPT ![c].inq = Append(@, line)]
    /\ UNCHANGED <<tunnel, client, starts, issued>>
    /\ last' = Step("ClientWrite", "", NoService, "None", 0, NoService, "none", {}, {})
    /\ pre' = NoPre
    /\ UNCHANGED <<lifeVars, regVars, fsVars, procs>>
    /\ regPort' = RegPortAfter(regPort, last')

\* a client closes its end; the lines it wrote stay readable for the daemon
client_close(c) ==
    /\ conns[c].state = "open"
    /\ conns' = [conns EXCEPT ![c].state = "peer_closed"]
    /\ UNCHANGED <<tunnel, client, starts, issued>>
    /\ last' = Step("ClientClose", "", NoService, "None", 0, NoService, "none", {}, {})
    /\ pre' = NoPre
    /\ UNCHANGED <<lifeVars, regVars, fsVars, procs>>
    /\ regPort' = RegPortAfter(regPort, last')

\* handle_request: the match on the request
handle_request(request) ==
    CASE request.kind = "Register" ->
            \E io \in IoOk : handle_request_Register(request.domain, request.port, request.pid,
                                                     DirOf(request.pid), io)
      [] request.kind = "Unregister" -> \E io \in IoOk : handle_request_Unregister(request.domain, io)
      [] request.kind = "GetPort" -> handle_request_GetPort
      [] request.kind = "List" -> handle_request_List
      [] request.kind = "Stop" -> \E io \in IoOk : handle_request_Stop(request.domain, io)
      [] request.kind = "Shutdown" -> handle_request_Shutdown

\* handle_socket_client: a bug that reads the next line while a response is
\* still to be written
ReadyToRead_noWait(cn) == cn.state # "closed"

\* handle_socket_client: the loop is at read_line, which it reaches only after
\* write_all of the previous response
ReadyToRead(cn) == cn.state # "closed" /\ cn.pend = NoResp

\* handle_socket_client: a bug that skips a line that does not parse
OnParseError_skip(cn) == [cn EXCEPT !.inq = Tail(@), !.n = @ + 1, !.w = @ + 1]

\* handle_socket_client: serde_json::from_str(&line)? returns the error, the
\* stream halves are dropped
OnParseError(cn) == NoConn

\* handle_socket_client: read_line yields a line, it is parsed and handled
handle_socket_client_line(c) ==
    /\ daemon = "running"
    /\ ReadyToRead(conns[c])
    /\ conns[c].inq # << >>
    /\ LET cn == conns[c]
           line == Head(cn.inq)
       IN  IF ~Parses(line)
           THEN /\ conns' = [conns EXCEPT ![c] = OnParseError(cn)]
                /\ UNCHANGED <<tunnel, client, starts, issued>>
                /\ last' = Step("Malformed", "", NoService, "None", 0, NoService, "none", {}, {})
                /\ pre' = NoPre
                /\ UNCHANGED <<lifeVars, regVars, fsVars, procs>>
                /\ regPort' = RegPortAfter(regPort, last')
           ELSE /\ handle_request(line)
                /\ IF line.kind = "Shutdown"
                   THEN TRUE
                   ELSE /\ conns' = [conns EXCEPT ![c] =
                                    [cn EXCEPT !.inq = Tail(cn.inq),
                                               !.n = cn.n + 1,
                                               !.pend = [k |-> cn.n + 1, req |-> line.kind,
                                                         resp |-> last'.resp]]]
                        /\ UNCHANGED <<tunnel, client, starts, issued>>

\* handle_socket_client: writer.write_all(response) completes, or fails because
\* the client is gone and the error ends the handler
handle_socket_client_write(c) ==
    /\ daemon = "running"
    /\ conns[c].state # "closed"
    /\ conns[c].pend # NoResp
    /\ conns' = [conns EXCEPT ![c] =
                    IF conns[c].state = "open"
                    THEN [conns[c] EXCEPT !.w = @ + 1, !.pend = NoResp]
                    ELSE NoConn]
    /\ UNCHANGED <<tunnel, client, starts, issued>>
    /\ last' = Step("Write", "", NoService, conns[c].pend.resp, 0, NoService, "none", {}, {})
    /\ pre' = NoPre
    /\ UNCHANGED <<lifeVars, regVars, fsVars, procs>>
    /\ regPort' = RegPortAfter(regPort, last')

\* handle_socket_client: read_line returns 0 at the end of the stream
handle_socket_client_eof(c) ==
    /\ daemon = "running"
    /\ conns[c].state = "peer_closed"
    /\ ReadyToRead(conns[c])
    /\ conns[c].inq = << >>
    /\ conns' = [conns EXCEPT ![c] = NoConn]
    /\ UNCHANGED <<tunnel, client, starts, issued>>
    /\ last' = Step("Eof", "", NoService, "None", 0, NoService, "none", {}, {})
    /\ pre' = NoPre
    /\ UNCHANGED <<lifeVars, regVars, fsVars, procs>>
    /\ regPort' = RegPortAfter(regPort, last')

\* the control plane with clients that pipeline lines on their connections
NextConn ==
    \/ \E io \in IoOk : run_started(1, io)
    \/ \E c \in ConnIds : UnixStream_connect(c)
    \/ \E c \in ConnIds, line \in ConnLines : client_write(c, line)
    \/ \E c \in ConnIds : client_close(c)
    \/ \E c \in ConnIds : handle_socket_client_line(c)
    \/ \E c \in ConnIds : handle_socket_client_write(c)
    \/ \E c \in ConnIds : handle_socket_client_eof(c)

SpecConn == Init /\ [][NextConn]_vars

(* ------------------------- data plane: the tunnel ----------------------- *)

\* the most bytes either side writes on one WebSocket connection
MaxBytes == 3

\* the bytes 1 .. n in the order the source wrote them
Bytes(n) == [i \in 1 .. n |-> i]

\* the first k elements of a sequence, and the rest
Take(seq, k) == SubSeq(seq, 1, k)
Drop(seq, k) == SubSeq(seq, k + 1, Len(seq))

\* the errors a read or write of the tunnel ends with
TunnelErrors == {"Connection reset by peer (os error 104)", "Broken pipe (os error 32)"}

\* e.to_string().contains("reset")
ContainsReset(err) == err = "Connection reset by peer (os error 104)"

\* a step of the tunnel that leaves the registry and the control plane alone
TunnelStep(t2, resp) ==
    /\ tunnel' = t2
    /\ last' = Step("Tunnel", "", NoService, resp, 0, NoService, "none", {}, {})
    /\ pre' = NoPre
    /\ UNCHANGED <<lifeVars, regVars, fsVars, procs, conns, client, starts, issued>>
    /\ regPort' = RegPortAfter(regPort, last')

\* a client connects to the proxy port and writes its upgrade request (byte 1)
TcpStream_connect ==
    /\ daemon = "running"
    /\ tunnel.state = "none"
    /\ TunnelStep([NoTunnel EXCEPT !.state = "accepted",
                                   !.up = [NoBytes EXCEPT !.sent = 1, !.q = <<1>>]],
                  "Accepted")

\* a side of the connection writes one more byte: the client from the moment it
\* is connected, the backend once the proxy has connected to it
peer_write(dir) ==
    /\ daemon = "running"
    /\ tunnel.state \in (IF dir = "up" THEN {"accepted", "open"} ELSE {"open"})
    /\ tunnel[dir].eof = "no"
    /\ tunnel[dir].sent < MaxBytes
    /\ TunnelStep([tunnel EXCEPT ![dir].sent = @ + 1,
                                 ![dir].q = Append(@, tunnel[dir].sent + 1)],
                  "PeerWrite")

\* a side shuts down its writing half
peer_shutdown(dir) ==
    /\ daemon = "running"
    /\ tunnel.state = "open"
    /\ tunnel[dir].eof = "no"
    /\ TunnelStep([tunnel EXCEPT ![dir].eof = "shutdown"], "PeerShutdown")

\* handle_connection: a bug that reads the request head instead of peeking at it
stream_peek_consume(q) == << >>

\* handle_connection: stream.peek(&mut buf) leaves the bytes in the socket
stream_peek(q) == q

\* handle_connection for an upgrade request: the head is peeked at, the Host is
\* looked up, and handle_websocket_tunnel connects to 127.0.0.1:port
handle_websocket_tunnel_connect(host, be) ==
    /\ daemon = "running"
    /\ tunnel.state = "accepted"
    /\ tunnel.up.q # << >>
    /\ LET found == Registry_get(services, HostName(host))
           up2 == [tunnel.up EXCEPT !.q = stream_peek(@)]
       IN  IF found = NoService
           THEN TunnelStep([tunnel EXCEPT !.state = "closed", !.result = "Ok",
                                          !.ended = "404"], "404 no tunnel")
           ELSE IF be = "ok"
           THEN TunnelStep([tunnel EXCEPT !.state = "open", !.up = up2,
                                          !.port = found.port], "Tunnel")
           ELSE TunnelStep([tunnel EXCEPT !.state = "closed", !.result = "Ok",
                                          !.log = "warn", !.ended = "connect failed"],
                           "Tunnel closed")

\* copy_bidirectional: one direction reads k bytes from its source
copy_read(dir, k) ==
    /\ daemon = "running"
    /\ tunnel.state = "open"
    /\ k \in 1 .. Len(tunnel[dir].q)
    /\ TunnelStep([tunnel EXCEPT ![dir].buf = @ \o Take(tunnel[dir].q, k),
                                 ![dir].q = Drop(@, k)],
                  "CopyRead")

\* copy_bidirectional: one direction writes k buffered bytes to its destination
copy_write(dir, k) ==
    /\ daemon = "running"
    /\ tunnel.state = "open"
    /\ k \in 1 .. Len(tunnel[dir].buf)
    /\ TunnelStep([tunnel EXCEPT ![dir].got = @ \o Take(tunnel[dir].buf, k),
                                 ![dir].buf = Drop(@, k)],
                  "CopyWrite")

\* the other direction of the tunnel
Opposite(dir) == IF dir = "up" THEN "down" ELSE "up"

\* copy_bidirectional: one direction reads the end of its stream after the
\* last byte, has flushed its buffer and shuts down the destination's writing
\* half; when both directions are done the call returns Ok and the closure is
\* logged with info!
copy_eof(dir) ==
    /\ daemon = "running"
    /\ tunnel.state = "open"
    /\ tunnel[dir].eof = "shutdown"
    /\ tunnel[dir].q = << >>
    /\ tunnel[dir].buf = << >>
    /\ IF tunnel[Opposite(dir)].eof = "done"
       THEN TunnelStep([tunnel EXCEPT ![dir].eof = "done", !.state = "closed",
                                      !.result = "Ok", !.log = "info", !.ended = "eof"],
                       "Tunnel closed")
       ELSE TunnelStep([tunnel EXCEPT ![dir].eof = "done"], "CopyEof")

\* copy_bidirectional returns Err(e): what the copy buffers hold is dropped with
\* the streams; the error is logged with warn! unless its text contains "reset"
copy_error(err) ==
    /\ daemon = "running"
    /\ tunnel.state = "open"
    /\ TunnelStep([tunnel EXCEPT !.state = "closed", !.result = "Ok",
                                 !.log = IF ContainsReset(err) THEN "none" ELSE "warn",
                                 !.ended = err],
                  "Tunnel closed")

\* the proxy with one WebSocket connection at a time
NextTunnel ==
    \/ \E io \in IoOk : run_started(1, io)
    \/ ctrl_c
    \/ \E io \in IoOk : start_Register("api.localhost", PORT_RANGE_START, 2, io)
    \/ TcpStream_connect
    \/ \E dir \in {"up", "down"} : peer_write(dir)
    \/ \E dir \in {"up", "down"} : peer_shutdown(dir)
    \/ \E host \in {"api.localhost", "web.localhost"}, be \in BackendOutcomes :
          handle_websocket_tunnel_connect(host, be)
    \/ \E dir \in {"up", "down"}, k \in 1 .. MaxBytes : copy_read(dir, k)
    \/ \E dir \in {"up", "down"}, k \in 1 .. MaxBytes : copy_write(dir, k)
    \/ \E dir \in {"up", "down"} : copy_eof(dir)
    \/ \E err \in TunnelErrors : copy_error(err)

SpecTunnel == Init /\ [][NextTunnel]_vars

(* ----------------------------- client runtime --------------------------- *)

\* Option<String>
None == << >>
Some(v) == <<v>>

\* PortStrategy of detect.rs
EnvVar(name) == [kind |-> "EnvVar", name |-> name]
CliFlag(flag) == [kind |-> "CliFlag", name |-> flag]

\* portEnv and portArg of the modelled unport.json files, and the strategies
\* that detect() yields
ConfigPortEnvs == {None, Some("MY_PORT")}
ConfigPortArgs == {None, Some("--port"), Some("0.0.0.0:")}
Detections == {EnvVar("PORT"), CliFlag("-p"), CliFlag("0.0.0.0:")}

\* the exit codes of the modelled children
ChildStatuses == {0, 1, 2}

\* flag.ends_with(':') on the modelled flags
EndsWithColon(flag) == flag = "0.0.0.0:"

\* start(): the port strategy handed to spawn_app
PortStrategyOf(port_env, port_arg, detected) ==
    IF port_arg # None THEN CliFlag(port_arg[1])
    ELSE IF port_env # None THEN EnvVar(port_env[1])
    ELSE detected

\* spawn_app: the arguments appended to the command and the environment
\* variables set for the child
spawn_app(port, port_strategy, port_env_override, port_arg_override) ==
    IF port_env_override # None
    THEN [args |-> << >>, env |-> {<<port_env_override[1], ToString(port)>>}]
    ELSE IF port_arg_override # None
    THEN [args |-> <<port_arg_override[1], ToString(port)>>, env |-> {}]
    ELSE IF port_strategy.kind = "EnvVar"
    THEN [args |-> << >>, env |-> {<<port_strategy.name, ToString(port)>>}]
    ELSE IF EndsWithColon(port_strategy.name)
    THEN [args |-> <<port_strategy.name \o ToString(port)>>, env |-> {}]
    ELSE [args |-> <<port_strategy.name, ToString(port)>>, env |-> {}]

\* how a process ended: not yet, with an exit code, or by a signal
NoExit == [how |-> "none", code |-> 0]
Exited(code) == [how |-> "exit", code |-> code]
Signalled(sig) == [how |-> "signal", code |-> sig]

\* main(): the exit code of the client when start() returns Ok(()) for a child
\* that succeeded (status.success()) and an error otherwise
ExitCodeOf(status) == IF status = Exited(0) THEN 0 ELSE 1

\* the domain of the modelled project: Config::full_domain
ClientDomain == "api.localhost"

\* start() has loaded the configuration and run the detection
LoadedClient(port_env, port_arg, detected) ==
    [pc |-> "loaded", port_env |-> port_env, port_arg |-> port_arg, detected |-> detected,
     port |-> 0, child |-> 0, args |-> << >>, env |-> {}, status |-> NoExit,
     events |-> << >>, exit |-> NoExit]

\* a step of the client that sends nothing to the daemon
ClientStep(c2, pt2) ==
    /\ client' = c2
    /\ procs' = pt2
    /\ last' = Step("Client", "", NoService, "None", 0, NoService, "none", {}, {})
    /\ pre' = NoPre
    /\ UNCHANGED <<lifeVars, regVars, fsVars, conns, tunnel, starts, issued>>
    /\ regPort' = RegPortAfter(regPort, last')

\* start(): Config::load and detect
start_load(port_env, port_arg, detected) ==
    /\ client.pc = "none"
    /\ ClientStep(LoadedClient(port_env, port_arg, detected), procs)

\* start(): send_request(&Request::GetPort)?; without a daemon the connect
\* fails and start() returns the error
start_send_GetPort ==
    /\ client.pc = "loaded"
    /\ IF daemon = "running"
       THEN /\ handle_request_GetPort
            /\ client' = [client EXCEPT !.pc = "got_port", !.port = last'.port,
                                        !.events = Append(@, [ev |-> "GetPort", port |-> last'.port,
                                                              pid |-> 0])]
            /\ UNCHANGED <<conns, tunnel, starts, issued>>
       ELSE ClientStep([client EXCEPT !.pc = "exited", !.exit = Exited(1)], procs)

\* start(): a bug that registers the first port of the window
RegisterRequest_firstPort(cl) ==
    [domain |-> ClientDomain, port |-> PORT_RANGE_START, pid |-> cl.child]

\* start(): the Register request
RegisterRequest(cl) == [domain |-> ClientDomain, port |-> cl.port, pid |-> cl.child]

\* start(): spawn_app(...)? starts the child under a free pid, or fails
start_spawn_app(pid, ok) ==
    /\ client.pc = "got_port"
    /\ pid # daemonPid
    /\ procs[pid] = "dead"
    /\ IF ok
       THEN LET strategy == PortStrategyOf(client.port_env, client.port_arg, client.detected)
                inj == spawn_app(client.port, strategy, client.port_env, client.port_arg)
            IN  ClientStep([client EXCEPT !.pc = "spawned", !.child = pid,
                                          !.args = inj.args, !.env = inj.env,
                                          !.events = Append(@, [ev |-> "spawn", port |-> client.port,
                                                                pid |-> pid])],
                           [procs EXCEPT ![pid] = "alive"])
       ELSE ClientStep([client EXCEPT !.pc = "exited", !.exit = Exited(1)], procs)

\* start(): send_request(&Request::Register {..})?; a rejection is logged and
\* start() goes on; without a daemon start() returns the error
start_send_Register(io) ==
    /\ client.pc = "spawned"
    /\ LET req == RegisterRequest(client)
       IN  IF daemon = "running"
           THEN /\ handle_request_Register(req.domain, req.port, req.pid, DirOf(req.pid), io)
                /\ client' = [client EXCEPT !.pc = "registered",
                                            !.events = Append(@, [ev |-> "Register",
                                                                  port |-> req.port,
                                                                  pid |-> req.pid])]
                /\ UNCHANGED <<conns, tunnel, starts, issued>>
           ELSE ClientStep([client EXCEPT !.pc = "exited", !.exit = Exited(1)], procs)

\* start(): ctrlc::set_handler
start_set_handler ==
    /\ client.pc = "registered"
    /\ ClientStep([client EXCEPT !.pc = "waiting"], procs)

\* a process other than the daemon ends with an exit code; the client's child
\* leaves the code for child.wait()
child_exit(p, status) ==
    /\ p # daemonPid
    /\ procs[p] = "alive"
    /\ ClientStep(IF client.pc \in {"spawned", "registered", "waiting"} /\ client.child = p
                  THEN [client EXCEPT !.status = Exited(status)]
                  ELSE client,
                  [procs EXCEPT ![p] = "dead"])

\* start(): child.wait()? returns the status of the child
start_wait ==
    /\ client.pc = "waiting"
    /\ client.status # NoExit
    /\ ClientStep([client EXCEPT !.pc = "reaped",
                                 !.events = Append(@, [ev |-> "wait", port |-> 0,
                                                       pid |-> client.child])],
                  procs)

\* send_request(&Request::Unregister {..}) whose result is dropped: without a
\* daemon nothing happens
send_Unregister_ignored(c2, io) ==
    IF daemon = "running"
    THEN /\ handle_request_Unregister(ClientDomain, io)
         /\ client' = c2
         /\ UNCHANGED <<conns, tunnel, starts, issued>>
    ELSE ClientStep(c2, procs)

\* start(): the Unregister after the wait, then the return to main()
start_send_Unregister(io) ==
    /\ client.pc = "reaped"
    /\ send_Unregister_ignored(
          [client EXCEPT !.pc = "exited", !.exit = Exited(ExitCodeOf(client.status)),
                         !.events = Append(@, [ev |-> "Unregister", port |-> 0, pid |-> 0])],
          io)

\* Ctrl+C while no handler is installed: SIGINT ends the client
start_sigint_default ==
    /\ client.pc \in {"loaded", "got_port", "spawned", "registered"}
    /\ ClientStep([client EXCEPT !.pc = "exited", !.exit = Signalled(2),
                                 !.events = Append(@, [ev |-> "CtrlC", port |-> 0, pid |-> 0])],
                  procs)

\* Ctrl+C with the handler installed: Unregister, then std::process::exit(0)
start_ctrlc_handler(io) ==
    /\ client.pc \in {"waiting", "reaped"}
    /\ send_Unregister_ignored(
          [client EXCEPT !.pc = "exited", !.exit = Exited(0),
                         !.events = @ \o <<[ev |-> "CtrlC", port |-> 0, pid |-> 0],
                                           [ev |-> "Unregister", port |-> 0, pid |-> 0]>>],
          io)

\* one client runs start() against the daemon, in a project with the default
\* injection or with portArg, while other clients ask for ports
NextClient ==
    \/ \E io \in IoOk : run_started(1, io)
    \/ ctrl_c
    \/ start_GetPort
    \/ \E a \in {None, Some("--port")} : start_load(None, a, EnvVar("PORT"))
    \/ start_send_GetPort
    \/ \E ok \in BOOLEAN : start_spawn_app(2, ok)
    \/ \E io \in IoOk : start_send_Register(io)
    \/ start_set_handler
    \/ \E p \in Pids, status \in ChildStatuses : child_exit(p, status)
    \/ start_wait
    \/ \E io \in IoOk : start_send_Unregister(io)
    \/ start_sigint_default
    \/ \E io \in IoOk : start_ctrlc_handler(io)

SpecClient == Init /\ [][NextClient]_vars

\* the start of the client up to the spawn, over the modelled configurations
\* and detections
NextSpawn ==
    \/ \E io \in IoOk : run_started(1, io)
    \/ start_GetPort
    \/ \E e \in ConfigPortEnvs, a \in ConfigPortArgs, d \in Detections : start_load(e, a, d)
    \/ start_send_GetPort
    \/ \E ok \in BOOLEAN : start_spawn_app(2, ok)
    \/ \E status \in {0} : child_exit(2, status)
    \/ start_sigint_default

SpecSpawn == Init /\ [][NextSpawn]_vars

(* ------------------------- the daemon left running --------------------- *)

\* the tasks of the daemon that tokio runs whenever they can take a step: the
\* handlers of the accepted control connections; run() starts no timer and no
\* other task that acts without a request
DaemonTasks ==
    \E c \in ConnIds :
        \/ handle_socket_client_line(c)
        \/ handle_socket_client_write(c)
        \/ handle_socket_client_eof(c)

\* a daemon that is never shut down, clients that register and list on one
\* connection at a time, and a child that starts and ends
NextLive ==
    \/ \E io \in IoOk : run_started(1, io)
    \/ UnixStream_connect(1)
    \/ \E line \in {Line("List", ""), Line("Register", "api.localhost")} : client_write(1, line)
    \/ client_close(1)
    \/ handle_socket_client_line(1)
    \/ handle_socket_client_write(1)
    \/ handle_socket_client_eof(1)
    \/ ProcSpawn(2, "alive")
    \/ ProcExit(2)

SpecLive == Init /\ [][NextLive]_vars /\ WF_vars(DaemonTasks)

(* --------------------------- leaf certificate --------------------------- *)

\* the longest list of domains a certificate is issued for
MaxDomains == 2

\* names handed to generate_cert; the last one has a letter outside ASCII
CertDomains == {"api.localhost", "web.localhost", "café.localhost"}
NonAscii == {"café.localhost"}

\* the lists of at most MaxDomains names
DomainLists == UNION {[1..k -> CertDomains] : k \in 0..MaxDomains}

\* Ia5String::try_from(&str): only ASCII text converts
Ia5String_try_from(s) == IF s \in NonAscii THEN None ELSE Some(s)

DnsName(name) == [kind |-> "DNS", value |-> name]
IpAddress(addr) == [kind |-> "IP", value |-> addr]

\* a SAN list with a wildcard entry in place of the concrete names
SubjectAltNames_wildcard(domains) ==
    <<DnsName("localhost"), IpAddress("127.0.0.1"), DnsName("*.localhost")>>

\* the SAN list generate_cert builds: localhost, 127.0.0.1, then every name
\* of the slice that converts, in the order of the slice
RECURSIVE SubjectAltNames(_)
SubjectAltNames(domains) ==
    IF domains = << >>
    THEN <<DnsName("localhost"), IpAddress("127.0.0.1")>>
    ELSE LET n == Len(domains)
             name == Ia5String_try_from(domains[n])
             sans == SubjectAltNames(SubSeq(domains, 1, n - 1))
         IN  IF name # None THEN Append(sans, DnsName(name[1])) ELSE sans

\* generate_cert(domains): fails before anything is built when the CA key
\* cannot be read, otherwise signs and writes a leaf with the SAN list
generate_cert(domains, ca) ==
    /\ last' = [Step("generate_cert", "", NoService,
                     IF ca = "ok" THEN "Ok" ELSE "Err", 0, NoService, "none", {}, {})
                EXCEPT !.domains = domains,
                       !.sans = IF ca = "ok" THEN SubjectAltNames(domains) ELSE << >>]
    /\ pre' = NoPre
    /\ UNCHANGED <<daemon, daemonPid, services, next_port, disk, pidFile, sockFile,
                   procs, regPort, conns, tunnel, client, starts, issued>>

\* certificates issued while services come and go
NextCert ==
    \/ \E io \in IoOk : run_started(1, io)
    \/ \E d \in Domains, io \in IoOk : start_Register(d, PORT_RANGE_START, 2, io)
    \/ \E d \in Domains, io \in IoOk : start_Unregister(d, io)
    \/ \E domains \in DomainLists, ca \in {"ok", "missing"} : generate_cert(domains, ca)

SpecCert == Init /\ [][NextCert]_vars

(* ---------------------- the Registry called directly -------------------- *)

\* registry.register(service) on a Registry no daemon serves, as the unit
\* tests of the registry call it
Registry_register_call(svc, io) ==
    /\ daemon = "down"
    /\ LET r == Registry_register(services, disk, svc, io)
       IN  /\ services' = r.services
           /\ disk' = r.disk
    /\ last' = Step("Registry::register", svc.domain, svc, "None", 0, NoService, io, {}, {})
    /\ pre' = [valid |-> TRUE, services |-> services, disk |-> disk,
               next_port |-> next_port]
    /\ regPort' = [regPort EXCEPT ![svc.domain] = svc.port]
    /\ UNCHANGED <<lifeVars, next_port, fsVars, procs, conns, tunnel, client, starts, issued>>

\* registry.unregister(domain), called the same way
Registry_unregister_call(domain, io) ==
    /\ daemon = "down"
    /\ LET r == Registry_unregister(services, disk, domain, io)
       IN  /\ services' = r.services
           /\ disk' = r.disk
           /\ last' = Step("Registry::unregister", domain, NoService, "None", 0,
                           r.removed, io, {}, {})
    /\ pre' = NoPre
    /\ regPort' = [regPort EXCEPT ![domain] = 0]
    /\ UNCHANGED <<lifeVars, next_port, fsVars, procs, conns, tunnel, client, starts, issued>>

NextRegistry ==
    \/ \E d \in Domains, p \in WindowPorts, pid \in Pids, io \in IoOk :
           Registry_register_call(Service(d, p, pid, DirOf(pid)), io)
    \/ \E d \in Domains, io \in IoOk : Registry_unregister_call(d, io)

SpecRegistry == Init /\ [][NextRegistry]_vars

(* ------------------ requests racing for the registry lock --------------- *)

\* the Register request the client of connection c sends: its own port and
\* directory for the one domain
RegisterOf(c) ==
    [kind |-> "Register", domain |-> "api.localhost", port |-> PORT_RANGE_START + c - 1,
     pid |-> 2, directory |-> DirOf(c)]
UnregisterLine == [kind |-> "Unregister", domain |-> "api.localhost", port |-> 0, pid |-> 0,
                   directory |-> ""]

\* the handler of the connection owns the write guard of the registry
HoldsWrite(cn) == cn.state \in {"locked", "found", "absent"}

\* registry.write().await returns: a bug that lets a second writer in
RwLock_write_ready_shared(cs, c) == TRUE

\* the data-plane task owns a read guard of the registry
HoldsRead(t) == t.guard

\* registry.write().await returns once no other task holds a guard
RwLock_write_ready(cs, c) ==
    /\ \A c2 \in ConnIds \ {c} : ~HoldsWrite(cs[c2])
    /\ ~HoldsRead(tunnel)

\* a step of the handler of connection c that leaves the registry alone
LockStep(c, st, op) ==
    /\ conns' = [conns EXCEPT ![c].state = st]
    /\ last' = [Step(op, Head(conns[c].inq).domain, NoService, "None", 0, NoService,
                     "none", {}, {}) EXCEPT !.self = c]
    /\ pre' = NoPre
    /\ regPort' = regPort
    /\ UNCHANGED <<lifeVars, services, next_port, disk, fsVars, procs, tunnel, client, starts, issued>>

\* handle_socket_client: read_line yields a request, handle_request is
\* entered and reaches registry.write().await
handle_request_enter(c) ==
    /\ daemon = "running"
    /\ conns[c].state = "open"
    /\ conns[c].pend = NoResp
    /\ conns[c].inq # << >>
    /\ LockStep(c, "write_wait", "Enter")

\* handle_request: registry.write().await returns the guard
handle_request_write_lock(c) ==
    /\ daemon = "running"
    /\ conns[c].state = "write_wait"
    /\ RwLock_write_ready(conns, c)
    /\ LockStep(c, "locked", "Lock")

\* handle_request, Request::Register: reg.get(&domain).is_some()
handle_request_Register_get(c) ==
    /\ daemon = "running"
    /\ conns[c].state = "locked"
    /\ Head(conns[c].inq).kind = "Register"
    /\ LockStep(c, IF Registry_get(services, Head(conns[c].inq).domain) # NoService
                   THEN "found" ELSE "absent", "Get")

\* handle_request: the rest of the arm; the guard is dropped when the arm
\* returns and the response goes to the writer
handle_request_return(c) ==
    /\ daemon = "running"
    /\ LET cn == conns[c]
           rq == Head(cn.inq)
           svc == Service(rq.domain, rq.port, rq.pid, rq.directory)
           answered(resp) == [cn EXCEPT !.state = "open", !.inq = Tail(cn.inq), !.n = cn.n + 1,
                                        !.pend = [k |-> cn.n + 1, req |-> rq.kind, resp |-> resp]]
       IN  \/ /\ cn.state = "found"
              /\ last' = [Step("Register", rq.domain, NoService, "Error", 0, NoService,
                               "none", {}, {}) EXCEPT !.self = c]
              /\ pre' = NoPre
              /\ conns' = [conns EXCEPT ![c] = answered("Error")]
              /\ UNCHANGED <<services, disk>>
           \/ /\ cn.state = "absent"
              /\ \E io \in IoOk :
                    LET r == Registry_register(services, disk, svc, io)
                    IN  /\ services' = r.services
                        /\ disk' = r.disk
                        /\ last' = [Step("Register", rq.domain, svc, "Ok", 0, NoService,
                                         io, {}, {}) EXCEPT !.self = c]
              /\ pre' = [valid |-> TRUE, services |-> services, disk |-> disk,
                         next_port |-> next_port]
              /\ conns' = [conns EXCEPT ![c] = answered("Ok")]
           \/ /\ cn.state = "locked"
              /\ rq.kind = "Unregister"
              /\ \E io \in IoOk :
                    LET r == Registry_unregister(services, disk, rq.domain, io)
                        resp == IF r.removed # NoService THEN "Ok" ELSE "Error"
                    IN  /\ services' = r.services
                        /\ disk' = r.disk
                        /\ last' = [Step("Unregister", rq.domain, NoService, resp, 0,
                                         r.removed, io, {}, {}) EXCEPT !.self = c]
                        /\ conns' = [conns EXCEPT ![c] = answered(resp)]
              /\ pre' = NoPre
    /\ regPort' = RegPortAfter(regPort, last')
    /\ UNCHANGED <<lifeVars, next_port, fsVars, procs, tunnel, client, starts, issued>>

\* two clients that send Register and Unregister for one domain at any time
NextLock ==
    \/ \E io \in IoOk : run_started(1, io)
    \/ \E c \in ConnIds : UnixStream_connect(c)
    \/ \E c \in ConnIds : \E line \in {RegisterOf(c), UnregisterLine} : client_write(c, line)
    \/ \E c \in ConnIds : handle_request_enter(c)
    \/ \E c \in ConnIds : handle_request_write_lock(c)
    \/ \E c \in ConnIds : handle_request_Register_get(c)
    \/ \E c \in ConnIds : handle_request_return(c)
    \/ \E c \in ConnIds : handle_socket_client_write(c)

SpecLock == Init /\ [][NextLock]_vars

(* --------------------------- racing daemon starts ----------------------- *)

\* a step of run() executed by the process self at the position st
RunStep(self, st, op, resp) ==
    /\ starts.pc[self] = st
    /\ last' = StartStep(op, resp, self, "none")
    /\ pre' = NoPre
    /\ regPort' = regPort
    /\ UNCHANGED <<lifeVars, conns, tunnel, client, issued>>

\* run(): the pid file is absent, unreadable as a pid or names no live
\* process; a file that exists is removed
run_check_pid_file(self) ==
    /\ procs[self] = "dead"
    /\ ~(pidFile.kind = "pid" /\ is_process_alive(Started(procs, self), pidFile.pid))
    /\ RunStep(self, "none", "CheckPidFile", "Passed")
    /\ procs' = Started(procs, self)
    /\ pidFile' = NoPidFile
    /\ starts' = [starts EXCEPT !.pc[self] = "checked"]
    /\ UNCHANGED <<regVars, sockFile>>

\* run(): std::fs::write(&pid_file, std::process::id().to_string())
run_write_pid_file(self) ==
    /\ RunStep(self, "checked", "WritePidFile", "None")
    /\ pidFile' = PidFileOf(self)
    /\ starts' = [starts EXCEPT !.pc[self] = "pid_written"]
    /\ UNCHANGED <<regVars, sockFile, procs>>

\* run(): if sock_path.exists() { remove_file(&sock_path) }
run_remove_old_socket(self) ==
    /\ RunStep(self, "pid_written", "RemoveSocket",
               IF starts.sock # 0 THEN "Removed" ELSE "None")
    /\ sockFile' = FALSE
    /\ starts' = [starts EXCEPT !.pc[self] = "socket_removed", !.sock = 0]
    /\ UNCHANGED <<regVars, pidFile, procs>>

\* run(): Registry::load, cleanup_dead, the two listener tasks are spawned
\* and run() waits in select!
run_load_and_spawn(self, io) ==
    /\ RunStep(self, "socket_removed", "Load", "None")
    /\ LET loaded == Registry_load(disk)
           swept == Registry_cleanup_dead(loaded.services, disk, procs, io)
       IN  /\ services' = swept.services
           /\ next_port' = loaded.next_port
           /\ disk' = swept.disk
    /\ starts' = [starts EXCEPT !.pc[self] = "select", !.socket_task[self] = "spawned",
                                !.proxy_task[self] = "spawned"]
    /\ UNCHANGED <<fsVars, procs>>

\* run_socket_server: UnixListener::bind(&sock) fails when the path exists
run_socket_server_bind(self) ==
    /\ starts.socket_task[self] = "spawned"
    /\ RunStep(self, "select", "BindSocket", IF starts.sock = 0 THEN "Bound" ELSE "Err")
    /\ sockFile' = TRUE
    /\ starts' = IF starts.sock = 0
                 THEN [starts EXCEPT !.socket_task[self] = "listening", !.sock = self]
                 ELSE [starts EXCEPT !.socket_task[self] = "failed"]
    /\ UNCHANGED <<regVars, pidFile, procs>>

\* run_proxy_server: TcpListener::bind(127.0.0.1:80) fails while another
\* process listens on the port
run_proxy_server_bind(self) ==
    /\ starts.proxy_task[self] = "spawned"
    /\ RunStep(self, "select", "BindProxy", IF starts.proxy = 0 THEN "Bound" ELSE "Err")
    /\ starts' = IF starts.proxy = 0
                 THEN [starts EXCEPT !.proxy_task[self] = "listening", !.proxy = self]
                 ELSE [starts EXCEPT !.proxy_task[self] = "failed"]
    /\ UNCHANGED <<regVars, fsVars, procs>>

\* the process is gone: its position and tasks are forgotten, the proxy port
\* is free again; the socket path stays unless it is removed
Exited_run(self, sock) ==
    [starts EXCEPT !.pc[self] = "none", !.socket_task[self] = "none",
                   !.proxy_task[self] = "none", !.sock = sock,
                   !.proxy = IF starts.proxy = self THEN 0 ELSE starts.proxy]

\* run(): select! returns because a listener task ended or Ctrl+C arrived;
\* both files are removed and run() returns
run_select_cleanup(self, ctrlc) ==
    /\ ctrlc \/ starts.socket_task[self] = "failed" \/ starts.proxy_task[self] = "failed"
    /\ RunStep(self, "select", "Cleanup", IF starts.sock # 0 THEN "Removed" ELSE "None")
    /\ sockFile' = FALSE
    /\ pidFile' = NoPidFile
    /\ procs' = [procs EXCEPT ![self] = "dead"]
    /\ starts' = Exited_run(self, 0)
    /\ UNCHANGED regVars

\* SIGKILL at any position of run(): nothing is cleaned up
run_killed(self) ==
    /\ starts.pc[self] # "none"
    /\ RunStep(self, starts.pc[self], "Killed", "None")
    /\ procs' = [procs EXCEPT ![self] = "dead"]
    /\ starts' = Exited_run(self, starts.sock)
    /\ UNCHANGED <<regVars, fsVars>>

\* run() is at select! with the control socket bound to the path
ServesSocket(self) == starts.pc[self] = "select" /\ starts.socket_task[self] = "listening"

NextStart ==
    \/ \E self \in Pids : run_already_running(self)
    \/ \E self \in Pids : run_check_pid_file(self)
    \/ \E self \in Pids : run_write_pid_file(self)
    \/ \E self \in Pids : run_remove_old_socket(self)
    \/ \E self \in Pids, io \in IoOk : run_load_and_spawn(self, io)
    \/ \E self \in Pids : run_socket_server_bind(self)
    \/ \E self \in Pids : run_proxy_server_bind(self)
    \/ \E self \in Pids, ctrlc \in BOOLEAN : run_select_cleanup(self, ctrlc)
    \/ \E self \in Pids : run_killed(self)

SpecStart == Init /\ [][NextStart]_vars

(* ------------------- a client next to another owner --------------------- *)

\* the pid of the child of another client, which registered the domain first:
\* the next pid after those of Pids
OtherChild == Cardinality(Pids) + 1

\* start() of the other client: the Register for its running child
other_start_Register(io) ==
    /\ procs[OtherChild] = "alive"
    /\ start_Register(ClientDomain, PORT_RANGE_END, OtherChild, io)

\* the process table with the other client's child in it
InitOwner == InitWith([p \in Pids \cup {OtherChild} |-> "dead"])

\* a daemon, the client of the model, and another client whose child holds
\* the domain the first one wants; that owner sends no Unregister, nothing is
\* stopped or killed, and the daemon starts once, so that nothing is swept
NextOwner ==
    \/ \E io \in IoOk : run_started(1, io)
    \/ ProcSpawn(OtherChild, "alive")
    \/ \E io \in IoOk : other_start_Register(io)
    \/ start_GetPort
    \/ \E a \in {None, Some("--port")} : start_load(None, a, EnvVar("PORT"))
    \/ start_send_GetPort
    \/ \E ok \in BOOLEAN : start_spawn_app(2, ok)
    \/ \E io \in IoOk : start_send_Register(io)
    \/ start_set_handler
    \/ \E status \in ChildStatuses : child_exit(2, status)
    \/ start_wait
    \/ \E io \in IoOk : start_send_Unregister(io)
    \/ start_sigint_default
    \/ \E io \in IoOk : start_ctrlc_handler(io)

SpecOwner == InitOwner /\ [][NextOwner]_vars

(* ------------------ the data plane and the registry lock ---------------- *)

\* the block around the lookup ends with the guard still alive: a bug that
\* binds the guard outside the block
PortBlockEnd_keep(t) == t

\* let port = { let reg = registry.read().await; ... }: the guard is dropped
\* at the closing brace of the block
PortBlockEnd(t) == [t EXCEPT !.guard = FALSE]

\* handle_http_request for Host api.localhost: registry.read().await returns
\* once no task holds the write guard
proxy_read_lock ==
    /\ daemon = "running"
    /\ tunnel.state = "none"
    /\ \A c \in ConnIds : ~HoldsWrite(conns[c])
    /\ TunnelStep([NoTunnel EXCEPT !.state = "read_locked", !.guard = TRUE], "ReadLock")

\* handle_http_request: reg.get(&domain).map(|s| s.port), end of the block
proxy_get_port ==
    /\ daemon = "running"
    /\ tunnel.state = "read_locked"
    /\ LET svc == Registry_get(services, ClientDomain)
       IN  TunnelStep(PortBlockEnd([tunnel EXCEPT !.state = "port_copied",
                                                  !.port = IF svc # NoService THEN svc.port ELSE 0]),
                      "GetPort")

\* forward_request: TcpStream::connect to the backend is started; the task
\* stays here for as long as the backend takes. Without a port the 404 page
\* is built from reg.list() under a new read guard and the task ends
proxy_forward_connect ==
    /\ daemon = "running"
    /\ tunnel.state = "port_copied"
    /\ IF tunnel.port # 0
       THEN TunnelStep([tunnel EXCEPT !.state = "connecting"], "Connect")
       ELSE /\ \A c \in ConnIds : ~HoldsWrite(conns[c])
            /\ TunnelStep(NoTunnel, "404")

\* forward_request returns: the response of the backend, or 502 after an
\* error; every guard of the task is gone when it ends
proxy_forward_done(outcome) ==
    /\ daemon = "running"
    /\ tunnel.state = "connecting"
    /\ TunnelStep(NoTunnel, outcome)

\* control requests on two connections next to one request on the data
\* plane whose backend may never answer
NextPlane ==
    \/ NextLock
    \/ proxy_read_lock
    \/ proxy_get_port
    \/ proxy_forward_connect
    \/ \E outcome \in {"200", "502"} : proxy_forward_done(outcome)

SpecPlane == Init /\ [][NextPlane]_vars

(* --------------------- GetPort on several connections ------------------- *)

GetPortLine == [kind |-> "GetPort", domain |-> "", port |-> 0, pid |-> 0, directory |-> ""]

\* the record of the latest responses: as many as the window has ports
Latest(h, port) ==
    LET h2 == Append(h, port)
    IN  IF Len(h2) > WindowSize + 1 THEN Tail(h2) ELSE h2

\* handle_request, Request::GetPort under the write guard; the guard is
\* dropped when the arm returns and the response goes to the writer
handle_request_GetPort_return(c) ==
    /\ conns[c].state = "locked"
    /\ Head(conns[c].inq).kind = "GetPort"
    /\ handle_request_GetPort
    /\ conns' = [conns EXCEPT ![c] =
                    [@ EXCEPT !.state = "open", !.inq = Tail(@), !.n = @ + 1,
                              !.pend = [k |-> conns[c].n + 1, req |-> "GetPort",
                                        resp |-> last'.resp]]]
    /\ issued' = Latest(issued, last'.port)
    /\ UNCHANGED <<tunnel, client, starts>>

\* clients that ask for ports on two connections at any time, next to
\* registrations and restarts of the daemon that move the loaded cursor
NextPorts ==
    \/ \E io \in IoOk : run_started(1, io)
    \/ ctrl_c
    \/ \E d \in Domains, p \in WindowPorts, io \in IoOk : start_Register(d, p, 2, io)
    \/ \E c \in ConnIds : UnixStream_connect(c)
    \/ \E c \in ConnIds : client_write(c, GetPortLine)
    \/ \E c \in ConnIds : handle_request_enter(c)
    \/ \E c \in ConnIds : handle_request_write_lock(c)
    \/ \E c \in ConnIds : handle_request_GetPort_return(c)
    \/ \E c \in ConnIds : handle_socket_client_write(c)

SpecPorts == Init /\ [][NextPorts]_vars

(* ------------------------ requests with their method -------------------- *)

\* the methods of the requests the data plane is sent
HttpMethods == {"GET", "POST"}

\* service_fn(|req| handle_http_request(req, registry)): the request of any
\* method is handed to handle_http_request, which does not read the method
service_fn(method, host, path, io) == handle_http_request(host, path, io)

(* -------------------------------- claims ------------------------------- *)

\* C1: the registry mapping never holds two bindings of the same domain
C1_OneBindingPerDomain ==
    \A k1, k2 \in DOMAIN services :
        services[k1].domain = services[k2].domain => k1 = k2

\* C1 witness: a Register for a taken domain was handled while both domains are bound
C1_Witness ==
    /\ last.op = "Register"
    /\ last.resp = "Error"
    /\ DOMAIN services = Domains

\* C2: a Register for a domain that has a binding is answered Error and leaves
\* the mapping and the snapshot as they were; no step changes the binding of a
\* domain that stays bound
C2_RegisterTakenRejected ==
    [][ /\ (last'.op = "Register" /\ last'.domain \in DOMAIN services)
           => (last'.resp = "Error" /\ services' = services /\ disk' = disk)
        /\ \A d \in (DOMAIN services) \cap (DOMAIN services') : services'[d] = services[d]
      ]_vars

\* C2 witness: a Register for a bound domain was rejected
C2_Witness ==
    /\ last.op = "Register"
    /\ last.resp = "Error"
    /\ last.domain \in DOMAIN services

\* C3: after an accepted Register(d, p) and until the next mutation of d, the
\* registry lookup of d yields a binding of d with port p
C3_LookupAfterRegister ==
    \A d \in Domains :
        regPort[d] # 0 =>
            /\ Registry_get(services, d) # NoService
            /\ Registry_get(services, d).domain = d
            /\ Registry_get(services, d).port = regPort[d]
            /\ \E s \in Registry_list(services) : s.domain = d /\ s.port = regPort[d]

\* C3 witness: the data plane resolved a Host to the port of an earlier
\* Register, with other requests in between
C3_Witness ==
    /\ last.op = "Http"
    /\ last.resp = "Forward"
    /\ regPort[last.domain] = last.port
    /\ \E d \in Domains : d # last.domain /\ regPort[d] # 0

\* C4: every GetPort is answered Port(p) with PORT_RANGE_START <= p <= PORT_RANGE_END
C4_PortInWindow ==
    last.op = "GetPort" => (last.resp = "Port" /\ last.port \in WindowPorts)

\* a port counts as in use when a registered binding with a running process holds it
PortInUse(m, pt, p) == \E k \in DOMAIN m : m[k].port = p /\ Kill0(pt, m[k].pid) # "ESRCH"

\* the ports of the window in scan order from the cursor c, wrapping at PORT_RANGE_END
ScanFrom(c, i) == PORT_RANGE_START + ((c - PORT_RANGE_START + i) % (WindowSize + 1))

\* C5: GetPort returns the first port at or after the cursor (wrapping) that is
\* not in use, and the cursor moves just past the returned port
C5_FirstFreePort ==
    [][ (last'.op = "GetPort" /\ next_port \in WindowPorts
          /\ \E p \in WindowPorts : ~PortInUse(services, procs, p))
        => \E i \in 0 .. WindowSize :
              /\ last'.port = ScanFrom(next_port, i)
              /\ ~PortInUse(services, procs, last'.port)
              /\ \A j \in 0 .. (i - 1) : PortInUse(services, procs, ScanFrom(next_port, j))
              /\ next_port' = ScanFrom(last'.port, 1)
      ]_vars

\* the steps that rewrite the snapshot
Mutation(step) ==
    \/ step.op = "Register" /\ step.resp = "Ok"
    \/ step.op \in {"Unregister", "Stop"}
    \/ step.op = "Http" /\ step.resp \in {"200 ok", "404 not found"}
    \/ step.op = "Start" /\ step.resp = "Started"

\* C6: after a mutation whose save succeeded, the snapshot parses back to the
\* mapping in memory
C6_SnapshotEqualsMemory ==
    [][ (Mutation(last') /\ last'.io = "ok")
        => (disk'.kind = "json" /\ Parse(disk'.doc) = services') ]_vars

\* C6 witness: an Unregister removed one of two bindings and its save succeeded
C6_Witness ==
    /\ last.op = "Unregister"
    /\ last.resp = "Ok"
    /\ last.io = "ok"
    /\ services # EmptyMap
    /\ disk = JsonFile(Serialize(services))

\* C7: Unregister(d) right after an accepted Register(d, ...) restores mapping,
\* cursor and snapshot and returns the binding that was registered
C7_RegisterUnregisterRoundTrip ==
    [][ (/\ last.op = "Register" /\ last.resp = "Ok" /\ pre.valid
         /\ last'.op = "Unregister" /\ last'.domain = last.domain)
        => /\ last'.resp = "Ok"
           /\ last'.removed = last.svc
           /\ services' = pre.services
           /\ next_port' = pre.next_port
           /\ disk' = pre.disk
      ]_vars

\* C7 witness: such an Unregister happened with another binding in place
C7_Witness ==
    /\ last.op = "Unregister"
    /\ last.resp = "Ok"
    /\ pre.valid
    /\ services = pre.services
    /\ services # EmptyMap
    /\ disk = pre.disk

\* C8: the sweep removes exactly the loaded bindings whose pid answers signal 0
\* with "no such process" and keeps the others unchanged; the cursor is the
\* loaded one
C8_SweepRemovesOnlyDead ==
    [][ (last'.op = "Start" /\ last'.resp = "Started")
        => LET loaded == Registry_load(disk)
               keep == {k \in DOMAIN loaded.services :
                           Kill0(procs', loaded.services[k].pid) # "ESRCH"}
           IN  /\ services' = [k \in keep |-> loaded.services[k]]
               /\ next_port' = loaded.next_port
      ]_vars

\* the liveness predicate: signal 0 accepted, or rejected as not permitted
Live(pt, pid) == Kill0(pt, pid) \in {"ok", "EPERM"}

\* C9: a start that finds the pid file naming a live process fails with
\* DaemonAlreadyRunning and changes neither pid file nor socket; a start that
\* finds it stale or unparsable goes on and writes its own pid
C9_StartChecksPidFile ==
    [][ /\ (last'.op \in {"Start", "StartKilled"} /\ pidFile.kind = "pid"
              /\ Live(Started(procs, last'.self), pidFile.pid))
           => (last'.resp = "AlreadyRunning" /\ pidFile' = pidFile /\ sockFile' = sockFile)
        /\ (last'.op = "Start"
              /\ ~(pidFile.kind = "pid" /\ Live(Started(procs, last'.self), pidFile.pid)))
           => (last'.resp = "Started" /\ pidFile' = PidFileOf(last'.self))
      ]_vars

\* C10: once the daemon has ended on Ctrl+C or SIGTERM, neither the control
\* socket nor the pid file exists
C10_SignalShutdownCleansUp ==
    (daemon = "down" /\ last.op \in {"CtrlC", "SIGTERM"})
        => (~sockFile /\ pidFile.kind = "absent")

\* C11: once the daemon has ended on a Shutdown request, neither the control
\* socket nor the pid file exists
C11_ShutdownCleansUp ==
    (daemon = "down" /\ last.op = "Shutdown")
        => (~sockFile /\ pidFile.kind = "absent")

\* C14: Unregister(d) of a bound d answers Ok, returns the binding and removes
\* it alone; Unregister(d) of an unbound d answers Error, returns no binding and
\* leaves mapping and cursor as they were
C14_Unregister ==
    [][ last'.op = "Unregister"
        => LET d == last'.domain
           IN  IF d \in DOMAIN services
               THEN /\ last'.resp = "Ok"
                    /\ last'.removed = services[d]
                    /\ DOMAIN services' = (DOMAIN services) \ {d}
                    /\ \A k \in DOMAIN services' : services'[k] = services[k]
                    /\ next_port' = next_port
               ELSE /\ last'.resp = "Error"
                    /\ last'.removed = NoService
                    /\ services' = services
                    /\ next_port' = next_port
      ]_vars

\* C14 witness: an Unregister of an unbound domain was answered while another
\* domain is bound
C14_Witness ==
    /\ last.op = "Unregister"
    /\ last.resp = "Error"
    /\ services # EmptyMap

\* C15: Stop(d) of a bound d removes the binding, sends SIGTERM and nothing else
\* to the binding's pid and answers Ok; Stop(d) of an unbound d answers Error,
\* sends no signal and leaves mapping, cursor and snapshot as they were
C15_Stop ==
    [][ last'.op = "Stop"
        => LET d == last'.domain
           IN  IF d \in DOMAIN services
               THEN /\ last'.resp = "Ok"
                    /\ last'.sig = {<<services[d].pid, "SIGTERM">>}
                    /\ DOMAIN services' = (DOMAIN services) \ {d}
                    /\ \A k \in DOMAIN services' : services'[k] = services[k]
               ELSE /\ last'.resp = "Error"
                    /\ last'.sig = {}
                    /\ services' = services
                    /\ next_port' = next_port
                    /\ disk' = disk
      ]_vars

\* C15 witness: a Stop removed one binding of two and signalled its pid
C15_Witness ==
    /\ last.op = "Stop"
    /\ last.resp = "Ok"
    /\ last.sig # {}
    /\ services # EmptyMap

\* a request for /api/kill/{d} with Host localhost or 127.0.0.1
KillRequest(d) ==
    \E h \in {"localhost", "127.0.0.1"}, io \in IoOk :
        handle_http_request(h, [prefix |-> KillPrefix, rest |-> d], io)

\* C16: the kill endpoint for a bound d unregisters d alone, sends SIGTERM to
\* its pid and answers 200 {"ok":true}, and List no longer holds d; for an
\* unbound d it answers 404 {"error":"not found"}, sends no signal and leaves
\* mapping, cursor and snapshot as they were
C16_KillEndpoint ==
    [][ \A d \in Domains :
          KillRequest(d)
          => IF d \in DOMAIN services
             THEN /\ last'.resp = "200 ok"
                  /\ last'.sig = {<<services[d].pid, "SIGTERM">>}
                  /\ DOMAIN services' = (DOMAIN services) \ {d}
                  /\ \A k \in DOMAIN services' : services'[k] = services[k]
                  /\ \A s \in Registry_list(services') : s.domain # d
             ELSE /\ last'.resp = "404 not found"
                  /\ last'.sig = {}
                  /\ services' = services
                  /\ next_port' = next_port
                  /\ disk' = disk
      ]_vars

\* C16 witness: the kill endpoint removed one binding of two and signalled its pid
C16_Witness ==
    /\ last.op = "Http"
    /\ last.resp = "200 ok"
    /\ last.sig # {}
    /\ services # EmptyMap

\* an ordinary request (not the kill endpoint) with the Host h
OrdinaryRequest(h) ==
    \E io \in IoOk : handle_http_request(h, [prefix |-> "/", rest |-> ""], io)

\* C17: an ordinary request is routed by its Host against the registry at that
\* time: a bound domain is forwarded to its binding's port; unbound localhost
\* or 127.0.0.1 gets the status page listing every binding; any other unbound
\* domain gets 404 listing every bound domain
C17_HostRouting ==
    [][ \A h \in HttpHosts :
          OrdinaryRequest(h)
          => IF h \in DOMAIN services
             THEN /\ last'.backend = "ok" => last'.resp = "Forward"
                  /\ last'.backend # "none"
                  /\ last'.port = services[h].port
             ELSE IF h \in {"localhost", "127.0.0.1"}
             THEN /\ last'.resp = "200 dashboard"
                  /\ last'.listed = {services[k] : k \in DOMAIN services}
             ELSE /\ last'.resp = "404 unknown domain"
                  /\ {s.domain : s \in last'.listed} = DOMAIN services
      ]_vars

\* C17 witness: a request for an unbound domain was answered 404 with a
\* non-empty list of bound domains
C17_Witness ==
    /\ last.op = "Http"
    /\ last.resp = "404 unknown domain"
    /\ last.listed # {}

\* C18: when forwarding to a bound domain fails the answer is 502 and mapping
\* and snapshot stay as they were
C18_BadGateway ==
    [][ (last'.op = "Http" /\ last'.backend = "fail")
        => /\ last'.resp = "502 Bad Gateway"
           /\ services' = services
           /\ disk' = disk
           /\ last'.domain \in DOMAIN services'
      ]_vars

\* C18 witness: a forward to a bound domain failed and was answered 502
C18_Witness ==
    /\ last.op = "Http"
    /\ last.backend = "fail"
    /\ last.resp = "502 Bad Gateway"
    /\ last.domain \in DOMAIN services

\* a connection whose first request is an ordinary one with the Host h
RequestWithHost(h) ==
    \E u \in UpgradeLines, io \in IoOk :
        handle_connection(h, u, [prefix |-> "/", rest |-> ""], io)

\* C19: a request whose Host, without its port suffix, equals a bound domain up
\* to letter case is routed to that domain's binding, and no two bound domains
\* differ only in letter case
C19_CaseInsensitiveHost ==
    [][ /\ \A h \in CasedHosts :
              RequestWithHost(h)
              => \A k \in DOMAIN services :
                    ToLower(k) = ToLower(HostName(h))
                    => (last'.backend # "none" /\ last'.port = services[k].port)
        /\ \A k1, k2 \in DOMAIN services' : ToLower(k1) = ToLower(k2) => k1 = k2
      ]_vars

\* a connection whose first request carries the Upgrade line u
RequestWithUpgrade(u) ==
    \E h \in CasedHosts, path \in HttpPaths, io \in IoOk : handle_connection(h, u, path, io)

\* C20: a connection is treated as a WebSocket upgrade exactly when its head
\* has an Upgrade header with the value websocket, both compared without
\* regard to letter case
C20_WebSocketDetection ==
    [][ \A u \in UpgradeLines :
          RequestWithUpgrade(u)
          => ((last'.resp \in {"Tunnel", "Tunnel closed", "404 no tunnel"})
              <=> (ToLower(u.name) = "upgrade" /\ ToLower(u.value) = "websocket"))
      ]_vars

\* the response kinds that answer a request kind
Answers(kind) ==
    CASE kind \in {"Register", "Unregister", "Stop"} -> {"Ok", "Error"}
      [] kind = "GetPort" -> {"Port"}
      [] kind = "List" -> {"Services"}
      [] OTHER -> {}

\* C12: on one connection the requests are handled in the order received; the
\* k-th request is handled only when the responses to all earlier requests are
\* written; every response written is the k-th for the k-th request and of the
\* kind that answers it; no request has two responses and, when the handler is
\* back at reading, none has less than one
C12_PipelinedInOrder ==
    [][ \A c \in ConnIds :
          LET cn == conns[c]
              cn2 == conns'[c]
          IN  /\ (cn2.state # "closed" /\ cn2.n # cn.n)
                 => /\ cn2.n = cn.n + 1
                    /\ cn.inq # << >> /\ cn2.inq = Tail(cn.inq)
                    /\ cn.pend = NoResp /\ cn.w = cn.n
                    /\ cn2.pend.k = cn2.n
                    /\ cn2.pend.req = Head(cn.inq).kind
                    /\ cn2.pend.resp \in Answers(Head(cn.inq).kind)
              /\ (cn2.state # "closed" /\ cn2.w # cn.w)
                 => /\ cn2.w = cn.w + 1
                    /\ cn.pend.k = cn2.w
                    /\ cn2.pend = NoResp
                    /\ last'.resp = cn.pend.resp
              /\ cn2.w <= cn2.n /\ cn2.n <= cn2.w + 1
              /\ (cn2.state # "closed" /\ cn2.pend = NoResp) => cn2.w = cn2.n
      ]_vars

\* C12 witness: two pipelined requests of one connection have their responses
\* while another connection has a response waiting to be written
C12_Witness ==
    \E c, c2 \in ConnIds :
        /\ c # c2
        /\ conns[c].w = 2
        /\ conns[c2].pend # NoResp

\* C13: when the handler reads a line that is no Request, the connection is
\* closed with no response written and its later lines unread, the registry is
\* as it was, the daemon runs on and the other connections are untouched
C13_MalformedLineClosesConnection ==
    [][ \A c \in ConnIds :
          (/\ conns[c].inq # << >>
           /\ ~Parses(Head(conns[c].inq))
           /\ handle_socket_client_line(c))
          => /\ conns'[c] = NoConn
             /\ last'.op = "Malformed"
             /\ UNCHANGED <<services, next_port, disk>>
             /\ daemon' = "running"
             /\ sockFile'
             /\ \A c2 \in ConnIds \ {c} : conns'[c2] = conns[c2]
      ]_vars

\* C13 witness: a connection was closed on a line that is no Request while the
\* other connection is open with a line to be read
C13_Witness ==
    /\ last.op = "Malformed"
    /\ \E c, c2 \in ConnIds :
          /\ conns[c].state = "closed"
          /\ conns[c2].state = "open"
          /\ conns[c2].inq # << >>

\* C21: the bytes delivered by a tunnel to either side are the bytes the other
\* side wrote, from the upgrade request on, each once and in order; while the
\* tunnel is open no byte in transit is lost; a direction is shut down only
\* after all its bytes were delivered; a tunnel ended by close or by a
\* connection reset has returned Ok and logged neither a warning nor an error
C21_TunnelPreservesStreams ==
    /\ \A dir \in {"up", "down"} :
          /\ Len(tunnel[dir].got) <= tunnel[dir].sent
          /\ tunnel[dir].got = Bytes(Len(tunnel[dir].got))
          /\ tunnel.state = "open"
                => tunnel[dir].got \o tunnel[dir].buf \o tunnel[dir].q = Bytes(tunnel[dir].sent)
          /\ tunnel[dir].eof = "done" => tunnel[dir].got = Bytes(tunnel[dir].sent)
    /\ (tunnel.state = "closed" /\ (tunnel.ended = "eof" \/ ContainsReset(tunnel.ended)))
          => (tunnel.result = "Ok" /\ tunnel.log \notin {"warn", "error"})

\* C21 witness: a tunnel that carried bytes both ways, the upgrade request
\* first, was closed by both sides
C21_Witness ==
    /\ tunnel.state = "closed"
    /\ tunnel.ended = "eof"
    /\ Len(tunnel.up.got) >= 2
    /\ Len(tunnel.down.got) >= 2
    /\ tunnel.up.got[1] = 1

\* the place of an event of the client in the order of start()
Rank(name) ==
    CASE name = "GetPort" -> 1
      [] name = "spawn" -> 2
      [] name = "Register" -> 3
      [] name = "wait" -> 4
      [] name = "Unregister" -> 5
      [] OTHER -> 0

\* C22: the client's steps happen in the order GetPort, spawn, Register, wait,
\* Unregister; a child exists only after a GetPort that returned a port, and
\* without a daemon the client ends without a child; a Register follows the
\* spawn and carries the port that GetPort returned and the pid of the child
C22_ClientOrder ==
    [][ /\ client'.pc # "none" =>
           LET es == client'.events
               At(name) == {i \in DOMAIN es : es[i].ev = name}
           IN  /\ \A i, j \in DOMAIN es :
                     (i < j /\ Rank(es[i].ev) > 0 /\ Rank(es[j].ev) > 0)
                        => Rank(es[i].ev) < Rank(es[j].ev)
               /\ \A j \in At("spawn") :
                     \E i \in At("GetPort") : i < j /\ es[i].port = es[j].port /\ es[i].port # 0
               /\ \A j \in At("Register") :
                     \E i \in At("GetPort"), k \in At("spawn") :
                        /\ i < k /\ k < j
                        /\ es[j].port = es[i].port
                        /\ es[j].pid = es[k].pid
               /\ \A j \in At("wait") \cup At("Unregister") : \E i \in At("Register") : i < j
               /\ client'.child # 0 => At("spawn") # {}
               /\ \A q \in Pids : (procs[q] = "dead" /\ procs'[q] = "alive" /\ q # daemonPid')
                     => (At("spawn") # {} /\ es[Len(es)] = [ev |-> "spawn", port |-> client'.port,
                                                            pid |-> q])
        /\ (client.pc = "loaded" /\ client'.pc = "got_port")
              => (last'.op = "GetPort" /\ last'.resp = "Port" /\ client'.port = last'.port)
        /\ (client.pc = "loaded" /\ daemon = "down" /\ client' # client)
              => (client'.pc = "exited" /\ client'.child = 0 /\ procs' = procs)
        /\ last'.op = "Register"
              => /\ client.pc = "spawned"
                 /\ procs[client.child] = "alive" \/ client.status # NoExit
                 /\ last'.resp = "Ok" => (/\ last'.svc.port = client.port
                                          /\ last'.svc.pid = client.child
                                          /\ last'.svc.domain = ClientDomain)
      ]_vars

\* C22 witness: a client went through all five steps with a port other than
\* the first of the window
C22_Witness ==
    /\ client.pc = "exited"
    /\ Len(client.events) = 5
    /\ client.events[1] = [ev |-> "GetPort", port |-> PORT_RANGE_START + 1, pid |-> 0]
    /\ client.events[3] = [ev |-> "Register", port |-> PORT_RANGE_START + 1, pid |-> client.child]
    /\ client.events[5].ev = "Unregister"

\* C23: when the wait for the child has returned, the client sends
\* Unregister(domain) to the daemon and then ends with the status the child
\* ended with
C23_ExitStatusPropagated ==
    [][ (/\ client.pc = "reaped"
         /\ client'.pc = "exited"
         /\ client'.events = Append(client.events, [ev |-> "Unregister", port |-> 0, pid |-> 0]))
        => /\ daemon = "running" => (last'.op = "Unregister" /\ last'.domain = ClientDomain)
           /\ client'.exit = client.status
      ]_vars

\* the names of the client's events
EventNames(cl) == {cl.events[i].ev : i \in DOMAIN cl.events}

\* C24: once a client that had spawned its child has ended on Ctrl+C, the
\* child does not run and the client's domain has no binding
C24_CtrlCLeavesNothing ==
    (client.pc = "exited" /\ {"spawn", "CtrlC"} \subseteq EventNames(client))
        => /\ procs[client.child] # "alive"
           /\ Registry_get(services, ClientDomain) = NoService

\* the strategy that the configuration and the detection call for: portArg
\* first, then portEnv, then the detected one
ClaimedStrategy(cl) ==
    IF cl.port_arg # None THEN [kind |-> "CliFlag", name |-> cl.port_arg[1]]
    ELSE IF cl.port_env # None THEN [kind |-> "EnvVar", name |-> cl.port_env[1]]
    ELSE cl.detected

\* C25: the child is spawned with the injection of the strategy that portArg,
\* else portEnv, else the detection calls for: a flag on the command line and
\* no variable, or a variable and no flag
C25_StrategyPrecedence ==
    (client.pc # "none" /\ client.child # 0)
        => LET st == ClaimedStrategy(client)
               port == ToString(client.port)
           IN  IF st.kind = "CliFlag"
               THEN /\ client.env = {}
                    /\ client.args \in {<<st.name, port>>, <<st.name \o port>>}
               ELSE /\ client.args = << >>
                    /\ client.env = {<<st.name, port>>}

\* C26: when that strategy is CliFlag(flag), the child gets the one argument
\* flag ++ port if flag ends with ':' and the two arguments flag, port
\* otherwise, and no environment variable
C26_CliFlagTokens ==
    (client.pc # "none" /\ client.child # 0 /\ ClaimedStrategy(client).kind = "CliFlag")
        => LET flag == ClaimedStrategy(client).name
               port == ToString(client.port)
           IN  /\ client.env = {}
               /\ client.args = IF flag = "0.0.0.0:" THEN <<flag \o port>> ELSE <<flag, port>>

\* C27: GetPort returns the cursor and moves it on by one, from
\* PORT_RANGE_END back to PORT_RANGE_START; the cursor of a running daemon is
\* always within the window
C27_CursorAdvancesAndWraps ==
    [][ /\ last'.op = "GetPort"
           => /\ last'.port = next_port
              /\ next_port' = IF next_port = PORT_RANGE_END THEN PORT_RANGE_START
                              ELSE next_port + 1
        /\ daemon' = "running" => next_port' \in WindowPorts
      ]_vars

\* C28: a start sets the cursor to the highest port of the snapshot plus one,
\* to PORT_RANGE_START when that is beyond PORT_RANGE_END or when the snapshot
\* holds no binding (or cannot be read)
C28_LoadedCursor ==
    [][ (last'.op = "Start" /\ last'.resp = "Started")
        => LET ports == IF disk.kind = "json" THEN {e[2].port : e \in disk.doc} ELSE {}
               highest == CHOOSE p \in ports : \A q \in ports : q <= p
           IN  next_port' = IF ports = {} THEN PORT_RANGE_START
                            ELSE IF highest + 1 > PORT_RANGE_END THEN PORT_RANGE_START
                            ELSE highest + 1
      ]_vars

\* C29: every step leaves the snapshot file as it was or holding a complete
\* document
C29_AtomicSnapshot ==
    [][ disk' = disk \/ disk'.kind = "json" ]_vars

\* C30: when the save of a register, unregister, Stop or sweep fails, the
\* mapping in memory and the response are those of the same request with a
\* save that succeeds, a success where the request found what it names; List
\* and the data plane answer from the mapping in memory
C30_SaveFailureSwallowed ==
    [][ /\ (last'.io \notin {"ok", "none"} /\ last'.op = "Register")
           => /\ last'.resp = "Ok"
              /\ services' = HashMapInsert(services, last'.domain, last'.svc)
        /\ (last'.io \notin {"ok", "none"} /\ last'.op \in {"Unregister", "Stop"})
           => /\ services' = HashMapRemove(services, last'.domain)
              /\ last'.domain \in DOMAIN services => last'.resp = "Ok"
        /\ (last'.io \notin {"ok", "none"} /\ last'.op = "Start")
           => /\ last'.resp = "Started"
              /\ daemon' = "running"
              /\ services' = Registry_cleanup_dead(Registry_load(disk).services, disk,
                                                   procs', "ok").services
        /\ last'.op = "List" => last'.listed = {services[k] : k \in DOMAIN services}
        /\ (last'.op = "Http" /\ last'.resp = "Forward")
           => (last'.domain \in DOMAIN services /\ last'.port = services[last'.domain].port)
      ]_vars

\* C30 witness: a List answered with a binding that the snapshot does not hold
C30_Witness ==
    /\ last.op = "List"
    /\ last.listed # {}
    /\ \E s \in last.listed : disk.kind # "json" \/ <<s.domain, s>> \notin disk.doc

\* C31: while the daemon runs, a binding whose pid names no process is
\* eventually removed (or its pid names a process again), with no Unregister
\* and no Stop sent
C31_DeadBindingSwept ==
    \A d \in Domains :
        (daemon = "running" /\ d \in DOMAIN services
            /\ Kill0(procs, Registry_get(services, d).pid) = "ESRCH")
        ~> (\/ daemon = "down"
            \/ d \notin DOMAIN services
            \/ Kill0(procs, Registry_get(services, d).pid) # "ESRCH")

\* the entries of a list
Elements(s) == {s[i] : i \in 1..Len(s)}

C33_RegisterOverwrites ==
    (/\ last.op = "Registry::register"
     /\ pre.valid
     /\ Registry_get(pre.services, last.domain) # NoService)
    => /\ Cardinality({k \in DOMAIN services : services[k].domain = last.domain}) = 1
       /\ Cardinality(DOMAIN services) = Cardinality(DOMAIN pre.services)
       /\ Registry_get(services, last.domain) = last.svc
       /\ Registry_get(services, last.domain).port = last.svc.port
       /\ \A d \in Domains \ {last.domain} :
              Registry_get(services, d) = Registry_get(pre.services, d)

\* C33 witness: a domain bound to one port and pid was registered again with
\* another port and pid while a second domain is bound
C33_Witness ==
    /\ last.op = "Registry::register"
    /\ pre.valid
    /\ Registry_get(pre.services, last.domain) # NoService
    /\ Registry_get(pre.services, last.domain).port # last.svc.port
    /\ Registry_get(pre.services, last.domain).pid # last.svc.pid
    /\ Cardinality(DOMAIN services) = 2

\* C34: Register requests for one domain that are in their handlers at the
\* same time on distinct connections: a request is answered Ok exactly when
\* the domain has no binding at the moment of the answer, the binding is then
\* the one of that request and it is the only change; every other request is
\* answered Error and changes nothing; no handler works on a check that
\* another handler's insert has made stale
C34_RegisterAtomic ==
    [][ /\ (last'.op = "Register" /\ last' # last)
           => /\ (last'.resp = "Ok") <=> (Registry_get(services, last'.domain) = NoService)
              /\ last'.resp \in {"Ok", "Error"}
              /\ last'.resp = "Ok"
                    => /\ Registry_get(services', last'.domain) = last'.svc
                       /\ last'.svc.port = PORT_RANGE_START + last'.self - 1
                       /\ last'.svc.directory = DirOf(last'.self)
                       /\ conns'[last'.self].pend.resp = "Ok"
              /\ last'.resp = "Error"
                    => /\ services' = services
                       /\ conns'[last'.self].pend.resp = "Error"
        /\ \A c \in ConnIds :
              conns'[c].state = "absent"
                  => Registry_get(services', Head(conns'[c].inq).domain) = NoService
      ]_vars

\* C34 witness: a Register was answered Ok while the Register of the other
\* connection, read before that answer, waits for the lock
C34_Witness ==
    /\ last.op = "Register"
    /\ last.resp = "Ok"
    /\ conns[last.self].pend.resp = "Ok"
    /\ \E c \in ConnIds \ {last.self} :
          /\ conns[c].state = "write_wait"
          /\ Head(conns[c].inq).kind = "Register"
          /\ Registry_get(services, last.domain).port # Head(conns[c].inq).port

\* C35: of two start attempts on one state directory at most one is past the
\* pid-file check at a time, two processes never both serve as the daemon,
\* and no start attempt removes the control socket that a process still
\* serving has bound
C35_SingleDaemon ==
    /\ [](Cardinality({p \in Pids : starts.pc[p] # "none"}) <= 1)
    /\ [](Cardinality({p \in Pids : starts.pc[p] = "select"}) <= 1)
    /\ [][last'.op = "RemoveSocket"
            => ~(/\ starts.sock # 0
                 /\ starts.sock # last'.self
                 /\ ServesSocket(starts.sock))]_vars

\* C36: a client whose Register was rejected because another client holds the
\* domain removes nothing: the binding of the other client's child stays
\* registered through every step the rejected client takes
C36_RejectedClientRemovesNothing ==
    [][ (/\ Registry_get(services, ClientDomain) # NoService
         /\ Registry_get(services, ClientDomain).pid = OtherChild
         /\ procs[OtherChild] = "alive")
        => Registry_get(services', ClientDomain) = Registry_get(services, ClientDomain)
      ]_vars

\* C37: while the data-plane task connects to or exchanges data with a
\* backend it holds no guard of the registry: the port it uses was copied
\* under the read guard, and a control request that waits for the write lock
\* is held up only by another control request, never by the backend
C37_NoLockAcrossBackendIo ==
    /\ tunnel.state \in {"port_copied", "connecting"} => ~HoldsRead(tunnel)
    /\ tunnel.state = "connecting"
          => /\ tunnel.port \in WindowPorts
             /\ \A c \in ConnIds :
                   (/\ conns[c].state = "write_wait"
                    /\ \A c2 \in ConnIds \ {c} : ~HoldsWrite(conns[c2]))
                   => RwLock_write_ready(conns, c)
    /\ HoldsRead(tunnel) => tunnel.state = "read_locked"

\* C37 witness: a Register and then an Unregister of the domain were handled
\* while the data-plane task waits for the backend of the port it copied
C37_Witness ==
    /\ tunnel.state = "connecting"
    /\ tunnel.port # 0
    /\ last.op = "Unregister"
    /\ last.resp = "Ok"
    /\ last.removed.port = tunnel.port

\* C38: a start leaves in the registry exactly the bindings of the snapshot
\* whose pid is live, each as the snapshot has it, and nothing when the
\* snapshot is absent or corrupt; it adds no binding; and nothing but a
\* request changes the registry afterwards, so this is what the first request
\* served finds
C38_StartOnlyPrunes ==
    [][ /\ (last'.op = "Start" /\ last'.resp = "Started")
           => LET snapshot == IF disk.kind = "json" THEN Parse(disk.doc) ELSE EmptyMap
                  alive == {k \in DOMAIN snapshot : Live(procs', snapshot[k].pid)}
              IN  /\ DOMAIN services' = alive
                  /\ \A k \in DOMAIN services' :
                        k \in DOMAIN snapshot /\ services'[k] = snapshot[k]
                  /\ disk.kind # "json" => services' = EmptyMap
        /\ (daemon = "running" /\ last'.op \in {"ProcExit", "ProcSpawn"})
           => services' = services
      ]_vars

C40_DataPlaneReadOnly ==
    [][ \A method \in HttpMethods, host \in HttpHosts, path \in HttpPaths, io \in IoAny :
           (/\ service_fn(method, host, path, io)
            /\ ~(/\ method = "POST"
                 /\ path.prefix = KillPrefix
                 /\ HostName(host) \in {"localhost", "127.0.0.1"}))
           => /\ services' = services
              /\ next_port' = next_port
              /\ disk' = disk
              /\ last'.sig = {}
      ]_vars

====
